---- MODULE Spec2Model ----
(***************************************************************************)
(* Model of the lock-free per-destination coalescing buffer of             *)
(* am++/counter_coalesced_message_type.hpp: the send / flush / send_buffer *)
(* state machine over the fused count_allocated word, the message_buffer   *)
(* clear, the public message_being_built, the destructor, and the          *)
(* transport / buffer-cache boundary.                                      *)
(*                                                                         *)
(* Each atomic access of the source is one step of one thread; accesses    *)
(* of thread-local data are folded into the step of the preceding atomic   *)
(* access.  A spin iteration that fails its test is a stuttering step.     *)
(***************************************************************************)
EXTENDS Integers, Sequences, FiniteSets, TLC

(* ------------------------------ bounds --------------------------------- *)
\* number of producer threads (they call send)
NumProducers == 2
\* number of threads that run flush as a flush object or an idle task
NumFlushers == 1
\* trans.size(): number of ranks (every rank is a possible destination)
NumRanks == 2
\* gen.coalescing_size: capacity (max_count) of every message buffer
coalescing_size == 2
\* total number of send() calls made in one behaviour
MaxSends == 3
\* width in bits of the unsigned count_allocated word (32 in the source)
WordBits == 5
\* number of flush cycles run after the producers have stopped sending
MaxQuietCycles == 4
\* number of send() calls in the behaviours in which sends themselves call flush
MaxLiveSends == 2
\* rh_gen.msg_count_thres: the message count that ends a velocity window (20 by default)
msg_count_thres == 2
\* total number of execute() calls made in one behaviour
MaxExecutes == 4
\* the largest count of an inbound batch, the largest element value, the number of batches
MaxCount == 3
MaxValue == 3
MaxBatches == 2
\* the number of IDs held at once, and of allocate() and free() calls in one behaviour
MaxIds == 5
MaxIdCalls == 10
\* the number of handlers attached at once, and of attach, detach and emit calls
MaxHandlers == 3
MaxSigOps == 8
\* the number of push_back calls on the append_buffer
MaxPushes == 4
\* the number of inbound batches in one epoch, and of changes of the scheduler's and the
\* termination detector's state and runs of the end-of-epoch flush task
MaxTasks == 2
MaxTpOps == 4
\* the count the barrier is constructed with, and the number of generations each thread
\* goes through
BarrierCount == 3
MaxGenerations == 3

NumThreads == NumProducers + NumFlushers
Threads == 1..NumThreads
Producers == 1..NumProducers
Flushers == (NumProducers + 1)..NumThreads
Ranks == 0..(NumRanks - 1)
Slots == 0..(coalescing_size - 1)
\* names for the regions that are installed in a buffer or held by a thread
RegionIds == 1..(NumRanks + NumThreads)

(* --------------------- the count_allocated word ------------------------ *)
UINT_MAX == (2 ^ WordBits) - 1
\* message_buffer::sender_active = UINT_MAX - UINT_MAX / 2
sender_active == UINT_MAX - (UINT_MAX \div 2)
\* message_buffer::count_mask = sender_active - 1
count_mask == sender_active - 1
\* x & sender_active != 0  (sender_active is the top bit of the word)
HasSender(x) == x >= sender_active
\* x & count_mask
CountOf(x) == IF x >= sender_active THEN x - sender_active ELSE x
\* unsigned wrap-around of fetch_add(1)
FetchAdd(x) == (x + 1) % (UINT_MAX + 1)
\* null data pointer / empty shared_ptr
NoRegion == 0

IsOpenUntested(x, max_count) == TRUE
\* send: the test that ends the inner spin loop
IsOpen(x, max_count) == CountOf(x) < max_count /\ ~HasSender(x)
ReservationOKNoSenderTest(my, max_count) == CountOf(my) < max_count
\* send: the two `continue` tests after fetch_add, negated
ReservationOK(my, max_count) == ~HasSender(my) /\ CountOf(my) < max_count
StealableOrFull(my, max_count) == my > 0 /\ my <= max_count
StealableOrEmpty(my, max_count) == my >= 0 /\ my < max_count
\* flush: the test `my_id > 0 && my_id < max_count`
Stealable(my, max_count) == my > 0 /\ my < max_count
AdvancedAlways(my, last) == TRUE
AdvancedNever(my, last) == FALSE
\* flush: the test `my_id != last_active[r].load()`
Advanced(my, last) == my # last
CasBlind(cur, expected) == TRUE
\* flush: whether compare_exchange_weak(my_id, sender_active) finds the expected value
CasSucceeds(cur, expected) == cur = expected
FlushRunsUnchecked(a) == TRUE
\* flush: the test `if(!*alive) return false`
FlushRuns(a) == a
PublishedUnchecked(written, count) == TRUE
PublishedWhenFull(written, count) == written = coalescing_size
\* send_buffer: the test that ends the publication wait
Published(written, count) == written = count
SendBufferEntryNeverSends(my) == "ret"
\* send_buffer: what the entry tests decide (wait for publication, or return false)
SendBufferEntry(my) == IF HasSender(my) THEN "ret" ELSE IF CountOf(my) # 0 THEN "sb_wait" ELSE "ret"
ClearStoresKeepsFlag(k) == IF k = 1 THEN {"data", "count_written"} ELSE {"count_allocated"}
ClearStoresReordered(k) == IF k = 1 THEN {"count_allocated"} ELSE {"data", "registered_with_td", "count_written"}
\* message_buffer::clear: the stores of its first part and its last store
ClearStores(k) == IF k = 1 THEN {"data", "registered_with_td", "count_written"} ELSE {"count_allocated"}
\* all_ranks::rank_from_index
rank_from_index(i) == i
\* buffer_cache::allocate: takes a region off the free-list, or makes a new one
\* (free: the length of the free-list, made: the number of regions made so far)
CacheAllocate(free, made) == IF free > 0 THEN [free |-> free - 1, made |-> made] ELSE [free |-> 0, made |-> made + 1]
\* the completion hook of a send drops the last owner of the region: it returns to the free-list
CacheRelease(free) == free + 1

VARIABLES touched, quiet, count_allocated, count_written, registered_with_td, data_owner, last_active, alive, mem, cache_free, cache_made, in_flight, transmitted, td_notified, gen, resv, nsent, fret, phase, cycles, q_mark, message_cnt, heur_enable_flush, h_local, h_calls, gen_coalescing_size, inbound, ids, sig, ab, tp, bar, pc, dest, arg, my_id, fi, sb_my_id, send_data, new_owner, send_gen

\* the message buffers, the flush bookkeeping, the owner, the cache and the transport
shared == <<count_allocated, count_written, registered_with_td, data_owner, last_active, alive, mem, cache_free, cache_made, in_flight>>
\* the relative-velocity heuristic: its counter, its enable_flush member, and for each thread
\* what its current or last execute() call did
heur == <<message_cnt, heur_enable_flush, h_local, h_calls>>
\* what runs apart from the outgoing buffers: gen.coalescing_size, the capacity the constructor
\* was called with; the inbound batch being dispatched; the id_assigner, the signal and the
\* append_buffer of the utilities; the transport's handler tasks and end-of-epoch flush task;
\* the barrier of thread_support.hpp
apart == <<gen_coalescing_size, inbound, ids, sig, ab, tp, bar>>
\* what flush's observations leave open: touched[d], whether a send reserved a slot of d's
\* buffer since the latest flush cycle loaded its count_allocated; quiet[t], whether no send
\* reserved one between the flush cycle before t's and now
watch == <<touched, quiet>>
\* what the transport and the termination detector were handed, and the bookkeeping of the calls
history == <<transmitted, td_notified, gen, resv, nsent, fret, phase, cycles, q_mark, heur, watch, apart>>
\* the local variables of the member function each thread is in
locals == <<pc, dest, arg, my_id, fi, sb_my_id, send_data, new_owner, send_gen>>
vars == <<shared, history, locals>>

\* a region whose slots hold nothing a producer wrote
EmptyRegion == [s \in Slots |-> 0]

\* the inbound batches the scheduler holds as handler tasks
Tasks == 1..MaxTasks
\* the transport after begin_epoch (both counters stored 0, lines 200-201), no batch
\* received, the scheduler running handlers, no end of epoch requested
TpInit ==
    [pending |-> 0, active |-> 0, st |-> [k \in Tasks |-> "absent"], pos |-> [k \in Tasks |-> 0],
     dec_pending |-> [k \in Tasks |-> 0], ran |-> [k \in Tasks |-> 0], done |-> [k \in Tasks |-> 0],
     dec_active |-> [k \in Tasks |-> 0], ret |-> [k \in Tasks |-> "none"], run_handlers |-> TRUE,
     ending |-> FALSE, ep |-> "none", ep_alive |-> FALSE, trans_live |-> TRUE, fpc |-> "none",
     saw |-> [alive |-> FALSE, trans |-> FALSE, quiet |-> FALSE, ending |-> FALSE],
     fret |-> "none", flushes |-> 0, ops |-> 0]
\* the threads that meet at the barrier
BarThreads == 1..BarrierCount
\* barrier(count): threshold(count), count(count), generation(0); no thread has called wait()
BarInit ==
    [threshold |-> BarrierCount, count |-> BarrierCount, generation |-> 0, mtx |-> 0,
     pc |-> [t \in BarThreads |-> "out"], gen |-> [t \in BarThreads |-> 0],
     ord |-> [t \in BarThreads |-> 0], calls |-> [t \in BarThreads |-> 0],
     arrived |-> [g \in 0..MaxGenerations |-> 0], rets |-> {}]
\* the state after the constructor: every destination's buffer cleared onto a region of the cache
Init ==
    /\ count_allocated = [d \in Ranks |-> 0]
    /\ count_written = [d \in Ranks |-> 0]
    /\ registered_with_td = [d \in Ranks |-> FALSE]
    /\ data_owner = [d \in Ranks |-> d + 1]
    /\ last_active = [d \in Ranks |-> 0]
    /\ alive = TRUE
    /\ mem = [r \in RegionIds |-> EmptyRegion]
    /\ cache_free = 0
    /\ cache_made = NumRanks
    /\ in_flight = 0
    /\ transmitted = [d \in Ranks |-> <<>>]
    /\ td_notified = [d \in Ranks |-> <<0>>]
    /\ gen = [d \in Ranks |-> 0]
    /\ resv = [d \in Ranks |-> <<>>]
    /\ nsent = [t \in Threads |-> 0]
    /\ fret = "none"
    /\ phase = "run"
    /\ cycles = 0
    /\ q_mark = [d \in Ranks |-> 0]
    /\ touched = [d \in Ranks |-> FALSE]
    /\ quiet = [t \in Threads |-> TRUE]
    /\ message_cnt = 0
    /\ heur_enable_flush = FALSE
    /\ h_local = [t \in Threads |-> [hit |-> FALSE, drop |-> FALSE, ret |-> "none"]]
    /\ h_calls = 0
    /\ gen_coalescing_size = coalescing_size
    /\ inbound = [pc |-> "idle", src |-> 0, orig |-> <<>>, buf |-> <<>>, count |-> 0, i |-> 0, sorter |-> "dummy", sorts |-> 0, calls |-> <<>>, batches |-> 0]
    /\ ids = [next |-> 0, held |-> {}, ret |-> -1, held_before |-> {}, calls |-> 0]
    /\ sig = [handlers |-> <<>>, made |-> 0, gone |-> {}, pc |-> "idle", i |-> 0, called |-> <<>>, ops |-> 0]
    /\ ab = [size |-> 0, data |-> [k \in 0..(MaxPushes - 1) |-> 0], pcs |-> [t \in Threads |-> "idle"],
             idx |-> [t \in Threads |-> 0], val |-> [t \in Threads |-> 0], rets |-> {}, calls |-> 0]
    /\ tp = TpInit
    /\ bar = BarInit
    /\ pc = [t \in Threads |-> "idle"]
    /\ dest = [t \in Threads |-> 0]
    /\ arg = [t \in Threads |-> 0]
    /\ my_id = [t \in Threads |-> 0]
    /\ fi = [t \in Threads |-> -1]
    /\ sb_my_id = [t \in Threads |-> 0]
    /\ send_data = [t \in Threads |-> NoRegion]
    /\ new_owner = [t \in Threads |-> NoRegion]
    /\ send_gen = [t \in Threads |-> 0]

\* buf.max_count, set from gen.coalescing_size for every destination
max_count == coalescing_size
\* the argument of thread t's k-th send call: distinct integers tagged with the thread
ArgOf(t, k) == (k - 1) * NumThreads + t
\* the number of send calls made so far
RECURSIVE SentUpTo(_)
SentUpTo(n) == IF n = 0 THEN 0 ELSE nsent[n] + SentUpTo(n - 1)
\* the arguments of all send calls made, and of those that have returned
Sent == UNION {{ArgOf(t, k) : k \in 1..nsent[t]} : t \in Threads}
Returned == Sent \ {arg[t] : t \in Threads}
\* the regions a thread took out of a buffer and has not yet handed to the transport
Held == {send_data[t] : t \in Threads} \ {NoRegion}
\* the name given to the region an allocation returns: one that names no live region
NewRegion == CHOOSE r \in RegionIds : /\ r \notin ({data_owner[d] : d \in Ranks} \cup Held \cup {new_owner[t] : t \in Threads})
                                      /\ \A q \in RegionIds : q < r => q \in ({data_owner[d] : d \in Ranks} \cup Held \cup {new_owner[t] : t \in Threads})

(* ------------------------------- send ---------------------------------- *)
\* a thread calls send(arg, d); every call carries a fresh argument
SendCall(t, d) ==
    /\ pc[t] = "idle"
    /\ alive
    /\ phase = "run"
    /\ SentUpTo(NumThreads) < MaxSends
    /\ nsent' = [nsent EXCEPT ![t] = @ + 1]
    /\ arg' = [arg EXCEPT ![t] = ArgOf(t, nsent[t] + 1)]
    /\ dest' = [dest EXCEPT ![t] = d]
    /\ pc' = [pc EXCEPT ![t] = "s_spin"]
    /\ UNCHANGED <<shared, transmitted, td_notified, gen, resv, fret, phase, cycles, q_mark, heur, watch, apart>>
    /\ UNCHANGED <<my_id, fi, sb_my_id, send_data, new_owner, send_gen>>

\* the inner spin loop: leave it when the loaded word shows an open buffer
SendSpin(t) ==
    /\ pc[t] = "s_spin"
    /\ IsOpen(count_allocated[dest[t]], max_count)
    /\ pc' = [pc EXCEPT ![t] = "s_fadd"]
    /\ UNCHANGED <<shared, history, dest, arg, my_id, fi, sb_my_id, send_data, new_owner, send_gen>>

\* thread u is in flush's loop body for destination d, between the load of count_allocated
\* and the end of the iteration
InFlushVisit(u, d) == pc[u] \in {"f_cmp", "f_store", "f_cas"} /\ dest[u] = d
\* my_id = count_allocated.fetch_add(1) and the two `continue` tests
SendFetchAdd(t) ==
    /\ pc[t] = "s_fadd"
    /\ LET d == dest[t]
           my == count_allocated[d]
       IN /\ count_allocated' = [count_allocated EXCEPT ![d] = FetchAdd(my)]
          /\ IF ReservationOK(my, max_count)
             THEN /\ pc' = [pc EXCEPT ![t] = "s_write"]
                  /\ my_id' = [my_id EXCEPT ![t] = my]
                  /\ resv' = [resv EXCEPT ![d] = Append(@, [arg |-> arg[t], gen |-> gen[d], slot |-> CountOf(my)])]
                  /\ touched' = [touched EXCEPT ![d] = TRUE]
                  /\ quiet' = [u \in Threads |-> quiet[u] /\ ~InFlushVisit(u, d)]
             ELSE /\ pc' = [pc EXCEPT ![t] = "s_spin"]
                  /\ UNCHANGED <<my_id, resv, watch>>
    /\ UNCHANGED <<count_written, registered_with_td, data_owner, last_active, alive, mem, cache_free, cache_made, in_flight>>
    /\ UNCHANGED <<transmitted, td_notified, gen, nsent, fret, phase, cycles, q_mark, heur, apart>>
    /\ UNCHANGED <<dest, arg, fi, sb_my_id, send_data, new_owner, send_gen>>

\* buf.data[my_id & count_mask] = arg
SendWrite(t) ==
    /\ pc[t] = "s_write"
    /\ data_owner[dest[t]] # NoRegion
    /\ LET slot == CountOf(my_id[t])
       IN /\ mem' = [mem EXCEPT ![data_owner[dest[t]]][slot] = arg[t]]
          /\ pc' = [pc EXCEPT ![t] = IF slot = max_count - 1 THEN "s_store_sa" ELSE IF slot = 0 THEN "s_reg" ELSE "s_incw"]
    /\ UNCHANGED <<count_allocated, count_written, registered_with_td, data_owner, last_active, alive, cache_free, cache_made, in_flight>>
    /\ UNCHANGED <<history, dest, arg, my_id, fi, sb_my_id, send_data, new_owner, send_gen>>

\* last slot: buf.count_allocated.store(sender_active)
SendStoreSenderActive(t) ==
    /\ pc[t] = "s_store_sa"
    /\ count_allocated' = [count_allocated EXCEPT ![dest[t]] = sender_active]
    /\ pc' = [pc EXCEPT ![t] = "s_reg"]
    /\ UNCHANGED <<count_written, registered_with_td, data_owner, last_active, alive, mem, cache_free, cache_made, in_flight>>
    /\ UNCHANGED <<history, dest, arg, my_id, fi, sb_my_id, send_data, new_owner, send_gen>>

\* first or last slot: if (!buf.registered_with_td.exchange(true))
SendRegister(t) ==
    /\ pc[t] = "s_reg"
    /\ registered_with_td' = [registered_with_td EXCEPT ![dest[t]] = TRUE]
    /\ pc' = [pc EXCEPT ![t] = IF registered_with_td[dest[t]] THEN "s_incw" ELSE "s_notify"]
    /\ UNCHANGED <<count_allocated, count_written, data_owner, last_active, alive, mem, cache_free, cache_made, in_flight>>
    /\ UNCHANGED <<history, dest, arg, my_id, fi, sb_my_id, send_data, new_owner, send_gen>>

\* this->mt.message_being_built(dest), called by the thread whose exchange returned false
SendNotify(t) ==
    /\ pc[t] = "s_notify"
    /\ td_notified' = [td_notified EXCEPT ![dest[t]][gen[dest[t]] + 1] = @ + 1]
    /\ pc' = [pc EXCEPT ![t] = "s_incw"]
    /\ UNCHANGED <<shared, transmitted, gen, resv, nsent, fret, phase, cycles, q_mark, heur, watch, apart>>
    /\ UNCHANGED <<dest, arg, my_id, fi, sb_my_id, send_data, new_owner, send_gen>>

\* ++buf.count_written; on the last slot, the call send_buffer(buf, max_count, dest)
SendIncWritten(t) ==
    /\ pc[t] = "s_incw"
    /\ count_written' = [count_written EXCEPT ![dest[t]] = @ + 1]
    /\ IF CountOf(my_id[t]) = max_count - 1
       THEN /\ sb_my_id' = [sb_my_id EXCEPT ![t] = max_count]
            /\ pc' = [pc EXCEPT ![t] = IF SendBufferEntry(max_count) = "sb_wait" THEN "sb_wait" ELSE "s_heur"]
       ELSE /\ sb_my_id' = sb_my_id
            /\ pc' = [pc EXCEPT ![t] = "s_heur"]
    /\ UNCHANGED <<count_allocated, registered_with_td, data_owner, last_active, alive, mem, cache_free, cache_made, in_flight>>
    /\ UNCHANGED <<history, dest, arg, my_id, fi, send_data, new_owner, send_gen>>

(* ------------------------------- flush --------------------------------- *)
\* the end of one iteration of flush's loop: the next destination, or `return true`
\* (a flush that send called ends that send too)
FlushAdvance(t) ==
    LET more == fi[t] + 1 < NumRanks
    IN /\ pc' = [pc EXCEPT ![t] = IF more THEN "f_load" ELSE "idle"]
       /\ fi' = [fi EXCEPT ![t] = IF more THEN fi[t] + 1 ELSE -1]
       /\ fret' = IF more THEN fret ELSE "true"
       /\ arg' = [arg EXCEPT ![t] = IF more THEN @ ELSE 0]
       /\ my_id' = [my_id EXCEPT ![t] = 0]
       /\ dest' = [dest EXCEPT ![t] = 0]
       /\ cycles' = IF more \/ phase # "quiet" THEN cycles ELSE cycles + 1

\* a thread (a flush object, an idle task, a user) calls flush(alive): the test of *alive
FlushCall(t) ==
    /\ pc[t] = "idle"
    /\ phase = "quiet" => (cycles < MaxQuietCycles /\ \A u \in Threads : pc[u] = "idle")
    /\ IF FlushRuns(alive)
       THEN /\ fi' = [fi EXCEPT ![t] = 0]
            /\ pc' = [pc EXCEPT ![t] = "f_load"]
            /\ fret' = fret
       ELSE /\ fret' = "false"
            /\ UNCHANGED <<fi, pc>>
    /\ UNCHANGED <<cycles, shared, transmitted, td_notified, gen, resv, nsent, phase, q_mark, heur, watch, apart>>
    /\ UNCHANGED <<dest, arg, my_id, sb_my_id, send_data, new_owner, send_gen>>

\* unsigned int my_id = buf.count_allocated.load()
FlushLoad(t) ==
    /\ pc[t] = "f_load"
    /\ dest' = [dest EXCEPT ![t] = rank_from_index(fi[t])]
    /\ my_id' = [my_id EXCEPT ![t] = count_allocated[rank_from_index(fi[t])]]
    /\ pc' = [pc EXCEPT ![t] = "f_cmp"]
    /\ quiet' = [quiet EXCEPT ![t] = ~touched[rank_from_index(fi[t])]]
    /\ touched' = [touched EXCEPT ![rank_from_index(fi[t])] = FALSE]
    /\ UNCHANGED <<shared, transmitted, td_notified, gen, resv, nsent, fret, phase, cycles, q_mark, heur, apart>>
    /\ UNCHANGED <<arg, fi, sb_my_id, send_data, new_owner, send_gen>>

\* if (my_id != last_active[r].load()); when equal, the first test of the steal loop
FlushCompare(t) ==
    /\ pc[t] = "f_cmp"
    /\ IF Advanced(my_id[t], last_active[dest[t]])
       THEN /\ pc' = [pc EXCEPT ![t] = "f_store"]
            /\ UNCHANGED <<fi, fret, arg, my_id, dest, cycles>>
       ELSE IF Stealable(my_id[t], max_count)
            THEN /\ pc' = [pc EXCEPT ![t] = "f_cas"]
                 /\ UNCHANGED <<fi, fret, arg, my_id, dest, cycles>>
            ELSE FlushAdvance(t)
    /\ UNCHANGED <<shared, transmitted, td_notified, gen, resv, nsent, phase, q_mark, heur, watch, apart>>
    /\ UNCHANGED <<sb_my_id, send_data, new_owner, send_gen>>

\* last_active[r].store(my_id); continue
FlushStore(t) ==
    /\ pc[t] = "f_store"
    /\ last_active' = [last_active EXCEPT ![dest[t]] = my_id[t]]
    /\ FlushAdvance(t)
    /\ UNCHANGED <<count_allocated, count_written, registered_with_td, data_owner, alive, mem, cache_free, cache_made, in_flight>>
    /\ UNCHANGED <<transmitted, td_notified, gen, resv, nsent, phase, q_mark, heur, watch, apart>>
    /\ UNCHANGED <<sb_my_id, send_data, new_owner, send_gen>>

\* compare_exchange_weak(my_id, sender_active): on success the call send_buffer(buf, my_id, r),
\* on failure my_id is reloaded and the loop tests it again
FlushCas(t) ==
    /\ pc[t] = "f_cas"
    /\ LET d == dest[t]
           cur == count_allocated[d]
       IN IF CasSucceeds(cur, my_id[t])
          THEN /\ count_allocated' = [count_allocated EXCEPT ![d] = sender_active]
               /\ IF SendBufferEntry(my_id[t]) = "sb_wait"
                  THEN /\ sb_my_id' = [sb_my_id EXCEPT ![t] = my_id[t]]
                       /\ pc' = [pc EXCEPT ![t] = "sb_wait"]
                       /\ UNCHANGED <<fi, fret, arg, my_id, dest, cycles>>
                  ELSE /\ sb_my_id' = sb_my_id
                       /\ FlushAdvance(t)
          ELSE /\ UNCHANGED <<count_allocated, sb_my_id>>
               /\ IF Stealable(cur, max_count)
                  THEN /\ my_id' = [my_id EXCEPT ![t] = cur]
                       /\ UNCHANGED <<pc, fi, fret, arg, dest, cycles>>
                  ELSE FlushAdvance(t)
    /\ UNCHANGED <<count_written, registered_with_td, data_owner, last_active, alive, mem, cache_free, cache_made, in_flight>>
    /\ UNCHANGED <<transmitted, td_notified, gen, resv, nsent, phase, q_mark, heur, watch, apart>>
    /\ UNCHANGED <<send_data, new_owner, send_gen>>

\* bool enable_flush = base_type::execute(); if (enable_flush) flush(alive); break
SendHeuristic(t, enable_flush) ==
    /\ pc[t] = "s_heur"
    /\ IF enable_flush /\ FlushRuns(alive)
       THEN /\ fi' = [fi EXCEPT ![t] = 0]
            /\ pc' = [pc EXCEPT ![t] = "f_load"]
            /\ UNCHANGED <<arg, dest, my_id, fret, cycles>>
       ELSE /\ arg' = [arg EXCEPT ![t] = 0]
            /\ dest' = [dest EXCEPT ![t] = 0]
            /\ my_id' = [my_id EXCEPT ![t] = 0]
            /\ fret' = IF enable_flush THEN "false" ELSE fret
            /\ UNCHANGED <<fi, cycles>>
            /\ pc' = [pc EXCEPT ![t] = "idle"]
    /\ UNCHANGED <<shared, transmitted, td_notified, gen, resv, nsent, phase, q_mark, heur, watch, apart>>
    /\ UNCHANGED <<sb_my_id, send_data, new_owner, send_gen>>

(* ---------------------------- send_buffer ------------------------------ *)
\* the publication wait, then the reads of buf.data and buf.data_owner
SendBufferWait(t) ==
    /\ pc[t] = "sb_wait"
    /\ Published(count_written[dest[t]], CountOf(sb_my_id[t]))
    /\ send_data' = [send_data EXCEPT ![t] = data_owner[dest[t]]]
    /\ send_gen' = [send_gen EXCEPT ![t] = gen[dest[t]]]
    /\ pc' = [pc EXCEPT ![t] = "sb_clear1"]
    /\ UNCHANGED <<shared, history, dest, arg, my_id, fi, sb_my_id, new_owner>>

\* the stores named by S of buf.clear(region); the region swap starts a new generation
ClearApply(d, S, region) ==
    /\ data_owner' = IF "data" \in S THEN [data_owner EXCEPT ![d] = region] ELSE data_owner
    /\ registered_with_td' = IF "registered_with_td" \in S THEN [registered_with_td EXCEPT ![d] = FALSE] ELSE registered_with_td
    /\ count_written' = IF "count_written" \in S THEN [count_written EXCEPT ![d] = 0] ELSE count_written
    /\ count_allocated' = IF "count_allocated" \in S THEN [count_allocated EXCEPT ![d] = 0] ELSE count_allocated
    /\ gen' = IF "data" \in S THEN [gen EXCEPT ![d] = @ + 1] ELSE gen
    /\ td_notified' = IF "data" \in S THEN [td_notified EXCEPT ![d] = Append(@, 0)] ELSE td_notified

\* buf.clear(buf_cache->allocate()): the allocation and the first part of clear
SendBufferClear1(t) ==
    /\ pc[t] = "sb_clear1"
    /\ LET region == NewRegion
       IN /\ cache_free' = CacheAllocate(cache_free, cache_made).free
          /\ cache_made' = CacheAllocate(cache_free, cache_made).made
          /\ mem' = [mem EXCEPT ![region] = EmptyRegion]
          /\ new_owner' = [new_owner EXCEPT ![t] = region]
          /\ ClearApply(dest[t], ClearStores(1), region)
    /\ pc' = [pc EXCEPT ![t] = "sb_clear2"]
    /\ UNCHANGED <<last_active, alive, in_flight, transmitted, resv, nsent, fret, phase, cycles, q_mark, heur, watch, apart>>
    /\ UNCHANGED <<dest, arg, my_id, fi, sb_my_id, send_data, send_gen>>

\* the rest of clear, ending with the store that reopens the buffer
SendBufferClear2(t) ==
    /\ pc[t] = "sb_clear2"
    /\ ClearApply(dest[t], ClearStores(2), new_owner[t])
    /\ new_owner' = [new_owner EXCEPT ![t] = NoRegion]
    /\ pc' = [pc EXCEPT ![t] = "sb_send"]
    /\ UNCHANGED <<last_active, alive, mem, cache_free, cache_made, in_flight, transmitted, resv, nsent, fret, phase, cycles, q_mark, heur, watch, apart>>
    /\ UNCHANGED <<dest, arg, my_id, fi, sb_my_id, send_data, send_gen>>

BatchShort(t) == [elems |-> [i \in 1..(CountOf(sb_my_id[t]) - 1) |-> mem[send_data[t]][i - 1]], gen |-> send_gen[t], path |-> IF fi[t] = -1 THEN "full" ELSE "flush", td |-> td_notified[dest[t]][send_gen[t] + 1]]
BatchReversed(t) == [elems |-> [i \in 1..CountOf(sb_my_id[t]) |-> mem[send_data[t]][CountOf(sb_my_id[t]) - i]], gen |-> send_gen[t], path |-> IF fi[t] = -1 THEN "full" ELSE "flush", td |-> td_notified[dest[t]][send_gen[t] + 1]]
\* the batch the transport is handed: the first count elements of the region
Batch(t) == [elems |-> [i \in 1..CountOf(sb_my_id[t]) |-> mem[send_data[t]][i - 1]], gen |-> send_gen[t], path |-> IF fi[t] = -1 THEN "full" ELSE "flush", td |-> td_notified[dest[t]][send_gen[t] + 1]]

\* this->mt.send(send_data, count, dest, sp_deleter(send_data_owner)); return true
SendBufferSend(t) ==
    /\ pc[t] = "sb_send"
    /\ transmitted' = [transmitted EXCEPT ![dest[t]] = Append(@, Batch(t))]
    /\ in_flight' = in_flight + 1
    /\ mem' = [mem EXCEPT ![send_data[t]] = EmptyRegion]
    /\ send_data' = [send_data EXCEPT ![t] = NoRegion]
    /\ send_gen' = [send_gen EXCEPT ![t] = 0]
    /\ sb_my_id' = [sb_my_id EXCEPT ![t] = 0]
    /\ IF fi[t] = -1
       THEN /\ pc' = [pc EXCEPT ![t] = "s_heur"]
            /\ UNCHANGED <<fi, fret, arg, my_id, dest, cycles>>
       ELSE FlushAdvance(t)
    /\ UNCHANGED <<count_allocated, count_written, registered_with_td, data_owner, last_active, alive, cache_free, cache_made>>
    /\ UNCHANGED <<td_notified, gen, resv, nsent, phase, q_mark, heur, watch, apart, new_owner>>

(* ------------------------ message_being_built -------------------------- *)
\* bool was_registered = buf.registered_with_td.exchange(true); a call that finds the
\* flag set returns at once and changes nothing
MessageBeingBuiltCall(t, d) ==
    /\ pc[t] = "idle"
    /\ alive
    /\ ~registered_with_td[d]
    /\ registered_with_td' = [registered_with_td EXCEPT ![d] = TRUE]
    /\ dest' = [dest EXCEPT ![t] = d]
    /\ send_gen' = [send_gen EXCEPT ![t] = gen[d]]
    /\ pc' = [pc EXCEPT ![t] = "m_notify"]
    /\ UNCHANGED <<count_allocated, count_written, data_owner, last_active, alive, mem, cache_free, cache_made, in_flight>>
    /\ UNCHANGED <<history, arg, my_id, fi, sb_my_id, send_data, new_owner>>

\* if (!was_registered) this->mt.message_being_built(dest)
MessageBeingBuiltNotify(t) ==
    /\ pc[t] = "m_notify"
    /\ td_notified' = [td_notified EXCEPT ![dest[t]][send_gen[t] + 1] = @ + 1]
    /\ dest' = [dest EXCEPT ![t] = 0]
    /\ send_gen' = [send_gen EXCEPT ![t] = 0]
    /\ pc' = [pc EXCEPT ![t] = "idle"]
    /\ UNCHANGED <<shared, transmitted, gen, resv, nsent, fret, phase, cycles, q_mark, heur, watch, apart>>
    /\ UNCHANGED <<arg, my_id, fi, sb_my_id, send_data, new_owner>>

(* ------------------- transport and owner's lifetime -------------------- *)
SendCompleteLeaks ==
    /\ in_flight > 0
    /\ in_flight' = in_flight - 1
    /\ UNCHANGED <<count_allocated, count_written, registered_with_td, data_owner, last_active, alive, mem, cache_free, cache_made>>
    /\ UNCHANGED <<history, locals>>
\* the transport has sent a batch and runs its deleter: the region returns to the cache
SendComplete ==
    /\ in_flight > 0
    /\ in_flight' = in_flight - 1
    /\ cache_free' = IF alive THEN CacheRelease(cache_free) ELSE cache_free
    /\ UNCHANGED <<count_allocated, count_written, registered_with_td, data_owner, last_active, alive, mem, cache_made>>
    /\ UNCHANGED <<history, locals>>

\* ~counter_coalesced_message_type, run when no thread is inside a member function
Destroy ==
    /\ alive
    /\ \A t \in Threads : pc[t] = "idle"
    /\ alive' = FALSE
    /\ data_owner' = [d \in Ranks |-> NoRegion]
    /\ cache_free' = 0
    /\ UNCHANGED <<count_allocated, count_written, registered_with_td, last_active, mem, cache_made, in_flight>>
    /\ UNCHANGED <<history, locals>>

\* the producers stop: every send has returned and none is called from now on; the number
\* of batches each destination has been handed so far is noted
Quiesce ==
    /\ phase = "run"
    /\ alive
    /\ \A t \in Threads : pc[t] = "idle"
    /\ phase' = "quiet"
    /\ q_mark' = [d \in Ranks |-> Len(transmitted[d])]
    /\ UNCHANGED <<shared, locals, transmitted, td_notified, gen, resv, nsent, fret, cycles, heur, watch, apart>>

\* the steps inside send, send_buffer and flush, whoever called them
Step(t) ==
    \/ SendSpin(t)
    \/ SendFetchAdd(t)
    \/ SendWrite(t)
    \/ SendStoreSenderActive(t)
    \/ SendRegister(t)
    \/ SendNotify(t)
    \/ SendIncWritten(t)
    \/ SendBufferWait(t)
    \/ SendBufferClear1(t)
    \/ SendBufferClear2(t)
    \/ SendBufferSend(t)
    \/ FlushLoad(t)
    \/ FlushCompare(t)
    \/ FlushStore(t)
    \/ FlushCas(t)

\* producers send to every rank under a heuristic whose execute() returns false (the
\* relative-velocity heuristic below its message-count threshold: no send calls flush),
\* flushers run flush, and the owner may be destroyed
Next ==
    \/ \E t \in Producers, d \in Ranks : SendCall(t, d)
    \/ \E t \in Threads : Step(t)
    \/ \E t \in Producers : SendHeuristic(t, FALSE)
    \/ \E t \in Flushers : FlushCall(t)
    \/ Destroy

Spec == Init /\ [][Next]_vars

\* producers send to rank 0 and execute() may return either value after any send (the
\* relative-velocity heuristic at its threshold; the default heuristic, whose execute()
\* has no return statement), so that flush runs in producers and flushers at once
NextHeur ==
    \/ \E t \in Producers : SendCall(t, 0)
    \/ \E t \in Threads : Step(t)
    \/ \E t \in Producers, enable_flush \in BOOLEAN : SendHeuristic(t, enable_flush)
    \/ \E t \in Flushers : FlushCall(t)
    \/ Destroy

SpecHeur == Init /\ [][NextHeur]_vars

\* as Next, and the flushers also call message_being_built on any destination
NextTd ==
    \/ \E t \in Producers, d \in Ranks : SendCall(t, d)
    \/ \E t \in Threads : Step(t)
    \/ \E t \in Producers : SendHeuristic(t, FALSE)
    \/ \E t \in Flushers : FlushCall(t)
    \/ \E t \in Flushers, d \in Ranks : MessageBeingBuiltCall(t, d)
    \/ \E t \in Flushers : MessageBeingBuiltNotify(t)

SpecTd == Init /\ [][NextTd]_vars

\* producers send, then stop; flush cycles run during and after the sends
NextQuiet ==
    \/ \E t \in Producers, d \in Ranks : SendCall(t, d)
    \/ \E t \in Threads : Step(t)
    \/ \E t \in Producers : SendHeuristic(t, FALSE)
    \/ \E t \in Flushers : FlushCall(t)
    \/ Quiesce

SpecQuiet == Init /\ [][NextQuiet]_vars

(* ------------------ what the bookkeeping variables say ----------------- *)
\* the successful reservations of destination d made in generation g, in fetch_add order
GenResv(d, g) == SelectSeq(resv[d], LAMBDA r : r.gen = g)
\* their arguments, in the same order
GenElems(d, g) == [i \in 1..Len(GenResv(d, g)) |-> GenResv(d, g)[i].arg]
\* thread t is between its fetch_add and its ++count_written
Writing(t) == pc[t] \in {"s_write", "s_store_sa", "s_reg", "s_notify", "s_incw"}
\* thread t has set the sender-active bit of d's buffer and has not yet reopened the buffer
HoldsSender(t, d) ==
    /\ dest[t] = d
    /\ \/ pc[t] \in {"sb_wait", "sb_clear1", "sb_clear2"}
       \/ pc[t] \in {"s_reg", "s_notify", "s_incw"} /\ CountOf(my_id[t]) = max_count - 1
\* thread t has read d's region out of the buffer for generation g and not yet called mt.send
Taken(t, d, g) == pc[t] \in {"sb_clear1", "sb_clear2", "sb_send"} /\ dest[t] = d /\ send_gen[t] = g

(* ------------------------------ C1 ------------------------------------- *)
\* C1 (slot uniqueness): every successful reservation returns a slot index in
\* 0..max_count-1, no two successful reservations of the same buffer generation return
\* the same index, and no two send calls are about to write the same slot.
SlotUniqueness ==
    \A d \in Ranks :
        /\ \A i \in 1..Len(resv[d]) : resv[d][i].slot \in 0..(max_count - 1)
        /\ \A i, j \in 1..Len(resv[d]) :
              (i # j /\ resv[d][i].gen = resv[d][j].gen) => resv[d][i].slot # resv[d][j].slot
        /\ \A t, u \in Threads :
              (t # u /\ pc[t] = "s_write" /\ pc[u] = "s_write" /\ dest[t] = d /\ dest[u] = d)
                  => CountOf(my_id[t]) # CountOf(my_id[u])
\* two send calls hold reservations of the same buffer at once, both about to write
SlotUniquenessWitness ==
    \E t, u \in Threads : t # u /\ pc[t] = "s_write" /\ pc[u] = "s_write" /\ dest[t] = dest[u]

(* ------------------------------ C2 ------------------------------------- *)
\* C2 (sender exclusivity): at most one thread at a time holds sender-active rights for a
\* buffer, and each generation's contents are taken by at most one thread and handed to
\* the transport at most once, also when two flushes race to steal the same buffer.
SenderExclusivity ==
    \A d \in Ranks :
        /\ Cardinality({t \in Threads : HoldsSender(t, d)}) <= 1
        /\ \A i, j \in 1..Len(transmitted[d]) :
              i # j => transmitted[d][i].gen # transmitted[d][j].gen
        /\ \A t \in Threads : \A g \in 0..gen[d] :
              Taken(t, d, g) =>
                  /\ \A i \in 1..Len(transmitted[d]) : transmitted[d][i].gen # g
                  /\ \A u \in Threads \ {t} : ~Taken(u, d, g)
\* two flushes, both having seen the same quiescent partial buffer, race to steal it
SenderExclusivityWitness ==
    \E t, u \in Threads : t # u /\ pc[t] = "f_cas" /\ pc[u] = "f_cas" /\ dest[t] = dest[u]

(* ------------------------------ C3 ------------------------------------- *)
\* C3 (full-buffer exclusivity): a generation whose max_count slots were all reserved is
\* transmitted only by the producer that reserved slot max_count-1, on the full path, as
\* one batch of exactly max_count elements, and the termination detector is notified for
\* it exactly once (the call made or about to be made by the one thread whose exchange of
\* registered_with_td returned false); every thread that writes, notifies or transmits in send holds a
\* successful reservation (a producer whose fetch_add found the buffer full retries).
FullBufferExclusivity ==
    /\ \A t \in Threads : Writing(t) =>
          \E j \in 1..Len(resv[dest[t]]) :
              resv[dest[t]][j] = [arg |-> arg[t], gen |-> gen[dest[t]], slot |-> CountOf(my_id[t])]
    /\ \A d \in Ranks : \A g \in 0..gen[d] :
          Len(GenResv(d, g)) = max_count =>
              LET batches == {i \in 1..Len(transmitted[d]) : transmitted[d][i].gen = g}
                  senders == {t \in Threads : \/ Taken(t, d, g)
                                              \/ pc[t] = "sb_wait" /\ dest[t] = d /\ gen[d] = g}
                  notes == td_notified[d][g + 1]
                           + Cardinality({t \in Threads : pc[t] = "m_notify" /\ dest[t] = d /\ send_gen[t] = g})
                           + Cardinality({t \in Threads : pc[t] = "s_notify" /\ dest[t] = d /\ gen[d] = g})
              IN /\ Cardinality(batches) <= 1
                 /\ \A i \in batches : /\ Len(transmitted[d][i].elems) = max_count
                                       /\ transmitted[d][i].path = "full"
                 /\ \A t \in senders : fi[t] = -1 /\ arg[t] = GenResv(d, g)[max_count].arg
                 /\ notes <= 1
                 /\ (batches # {} \/ senders # {}) => notes = 1
\* the producer of the last slot has taken the full batch and notified the detector once,
\* while a racing producer has incremented the word past the sender-active bit
FullBufferExclusivityWitness ==
    \E t \in Threads :
        /\ pc[t] = "sb_clear2" /\ fi[t] = -1
        /\ count_allocated[dest[t]] > sender_active
        /\ td_notified[dest[t]][send_gen[t] + 1] = 1

(* ------------------------------ C4 ------------------------------------- *)
\* C4 (publication before transmit): every slot below count of a region that send_buffer
\* has read out of the buffer, and of every batch handed to the transport, holds the
\* value written by the producer that reserved that slot of that generation.
PublicationBeforeTransmit ==
    /\ \A t \in Threads : pc[t] \in {"sb_clear1", "sb_clear2", "sb_send"} =>
          \A k \in 0..(CountOf(sb_my_id[t]) - 1) :
              \E j \in 1..Len(resv[dest[t]]) :
                  resv[dest[t]][j] = [arg |-> mem[send_data[t]][k], gen |-> send_gen[t], slot |-> k]
    /\ \A d \in Ranks : \A i \in 1..Len(transmitted[d]) :
          \A k \in 1..Len(transmitted[d][i].elems) :
              /\ transmitted[d][i].elems[k] # 0
              /\ \E j \in 1..Len(resv[d]) :
                    resv[d][j] = [arg |-> transmitted[d][i].elems[k], gen |-> transmitted[d][i].gen, slot |-> k - 1]
\* one destination has been handed a batch on the full path and one on the flush path
PublicationBeforeTransmitWitness ==
    \E d \in Ranks : \E i, j \in 1..Len(transmitted[d]) :
        transmitted[d][i].path = "full" /\ transmitted[d][j].path = "flush"

InCurrent(d, a) == data_owner[d] # NoRegion /\ \E k \in Slots : mem[data_owner[d]][k] = a
\* the places of a among the elements of the batches handed to the transport for d
Occurrences(d, a) ==
    {<<i, k>> \in (1..Len(transmitted[d])) \X (1..max_count) :
        k <= Len(transmitted[d][i].elems) /\ transmitted[d][i].elems[k] = a}
\* the threads that have swapped a region holding a out of d's buffer and not yet called mt.send
Holders(d, a) ==
    {t \in Threads : /\ pc[t] \in {"sb_clear2", "sb_send"} /\ dest[t] = d
                     /\ \E k \in 0..(CountOf(sb_my_id[t]) - 1) : mem[send_data[t]][k] = a}
\* the number of elements handed to the transport for d
RECURSIVE Handed(_, _)
Handed(d, n) == IF n = 0 THEN 0 ELSE Len(transmitted[d][n].elems) + Handed(d, n - 1)
RECURSIVE HandedAll(_)
HandedAll(n) == IF n = 0 THEN 0 ELSE Handed(n - 1, Len(transmitted[n - 1])) + HandedAll(n - 1)

\* C6 as stated (no loss, no duplication): the argument of every send(arg, dest) that has
\* returned is either in dest's current buffer or in exactly one batch handed to the
\* transport for dest, never in two and never in a batch of another destination; after
\* the sends have returned and flush cycles were repeated, what was transmitted is what
\* was sent.
NoLossNoDuplicationAsStated ==
    /\ \A a \in Returned : \E d \in Ranks :
          /\ \E j \in 1..Len(resv[d]) : resv[d][j].arg = a
          /\ \/ InCurrent(d, a) /\ Occurrences(d, a) = {}
             \/ ~InCurrent(d, a) /\ Cardinality(Occurrences(d, a)) = 1
          /\ \A e \in Ranks \ {d} : Occurrences(e, a) = {} /\ ~InCurrent(e, a)
    /\ (phase = "quiet" /\ cycles >= 2) =>
          /\ \A a \in Sent : \E d \in Ranks : Cardinality(Occurrences(d, a)) = 1
          /\ HandedAll(NumRanks) = Cardinality(Sent)

\* C6 as amended: the argument of every returned send(arg, dest) is in exactly one of
\* three places: dest's current buffer, the region one thread inside send_buffer has
\* taken out of dest's buffer and not yet handed over, or exactly one batch handed to the
\* transport for dest; never in two batches and never with another destination; and the
\* final equality of what was transmitted and what was sent.
NoLossNoDuplication ==
    /\ \A a \in Returned : \E d \in Ranks :
          /\ \E j \in 1..Len(resv[d]) : resv[d][j].arg = a
          /\ \/ InCurrent(d, a) /\ Occurrences(d, a) = {} /\ Holders(d, a) = {}
             \/ ~InCurrent(d, a) /\ Occurrences(d, a) = {} /\ Cardinality(Holders(d, a)) = 1
             \/ ~InCurrent(d, a) /\ Cardinality(Occurrences(d, a)) = 1 /\ Holders(d, a) = {}
          /\ \A e \in Ranks \ {d} : Occurrences(e, a) = {} /\ ~InCurrent(e, a) /\ Holders(e, a) = {}
    /\ (phase = "quiet" /\ cycles >= 2) =>
          /\ \A a \in Sent : \E d \in Ranks : Cardinality(Occurrences(d, a)) = 1
          /\ HandedAll(NumRanks) = Cardinality(Sent)
\* the argument of a returned send is in a region that a thread has taken out of the
\* buffer and is about to hand to the transport
NoLossNoDuplicationWitness ==
    \E a \in Returned : \E t \in Threads : pc[t] = "sb_send" /\ t \in Holders(dest[t], a)

(* ------------------------------ C7 ------------------------------------- *)
\* C7 (flush liveness): when the producers have stopped with k fully written elements,
\* 0 < k < max_count, in the buffer of destination d, two consecutive flush cycles steal
\* the buffer: exactly one batch, of exactly those k elements, has been handed to the
\* transport for d since, and the buffer is empty; a destination with an empty buffer is
\* handed nothing.
FlushLiveness ==
    phase = "quiet" =>
        \A d \in Ranks :
            LET k == Len(GenElems(d, q_mark[d]))
            IN /\ Len(transmitted[d]) <= q_mark[d] + (IF k > 0 THEN 1 ELSE 0)
               /\ cycles >= 2 =>
                     /\ Len(transmitted[d]) = q_mark[d] + (IF k > 0 THEN 1 ELSE 0)
                     /\ k > 0 => /\ transmitted[d][q_mark[d] + 1].elems = GenElems(d, q_mark[d])
                                 /\ transmitted[d][q_mark[d] + 1].path = "flush"
                     /\ count_allocated[d] = 0 /\ count_written[d] = 0
                     /\ mem[data_owner[d]] = EmptyRegion
\* two flush cycles have run since the producers stopped with a partial buffer, and its
\* elements were handed over as one batch
FlushLivenessWitness ==
    /\ phase = "quiet" /\ cycles = 2
    /\ \E d \in Ranks : Len(GenElems(d, q_mark[d])) > 0 /\ Len(transmitted[d]) = q_mark[d] + 1

(* ------------------------------ C8 ------------------------------------- *)
\* thread t, visiting a destination in flush with the loaded word my_id, takes a step
FlushVisitStep(t) == pc[t] \in {"f_cmp", "f_store", "f_cas"} /\ pc'[t] # pc[t]
\* C8 as stated (flush safety): a flush visit that found the buffer empty or sender-active
\* hands nothing to the transport and leaves count_allocated, count_written,
\* registered_with_td, the backing region and last_active[r] unchanged.
FlushSafetyAsStated ==
    [][\A t \in Threads :
          (FlushVisitStep(t) /\ (my_id[t] = 0 \/ HasSender(my_id[t]))) =>
              /\ UNCHANGED <<count_allocated, count_written, registered_with_td, data_owner, mem, transmitted, td_notified>>
              /\ pc'[t] \in {"f_store", "f_load", "idle"}
              /\ last_active' = last_active]_vars
\* C8 as amended: such a visit hands nothing to the transport and leaves count_allocated,
\* count_written, registered_with_td and the backing region unchanged; last_active[r] is
\* set to the word the visit loaded (it changes when it differed), and no other
\* destination's last_active changes.
FlushSafety ==
    [][\A t \in Threads :
          (FlushVisitStep(t) /\ (my_id[t] = 0 \/ HasSender(my_id[t]))) =>
              /\ UNCHANGED <<count_allocated, count_written, registered_with_td, data_owner, mem, transmitted, td_notified>>
              /\ pc'[t] \in {"f_store", "f_load", "idle"}
              /\ \A d \in Ranks \ {dest[t]} : last_active'[d] = last_active[d]
              /\ pc'[t] # "f_store" => last_active'[dest[t]] = my_id[t]]_vars
\* a flush visit that loaded a sender-active word is about to store it into last_active[r]
FlushSafetyWitness ==
    \E t \in Threads : pc[t] = "f_store" /\ HasSender(my_id[t]) /\ last_active[dest[t]] # my_id[t]

(* ------------------------------ C9 ------------------------------------- *)
\* C9 (shutdown race): once the destructor has set *alive = false, a flush invocation
\* returns false and changes no buffer, last_active, cache, transport or detector state
\* and enters no loop; a flush that returns while alive returns true.
ShutdownRace ==
    [][/\ ~alive => /\ fret' = "false"
                    /\ UNCHANGED <<shared, locals, transmitted, td_notified, gen, resv, nsent>>
       /\ (alive /\ fret' # fret) => fret' = "true"]_vars
\* a flush invoked after the destructor ran has returned false
ShutdownRaceWitness == ~alive /\ fret = "false"

(* ------------------------------ C10 ------------------------------------ *)
\* the elements handed to the transport for d, batch after batch in the order of the
\* transport send calls
RECURSIVE TransmitOrder(_, _)
TransmitOrder(d, n) == IF n = 0 THEN <<>> ELSE TransmitOrder(d, n - 1) \o transmitted[d][n].elems
\* the place of argument a in the order of the successful reservations of d
ResvPos(d, a) == CHOOSE j \in 1..Len(resv[d]) : resv[d][j].arg = a
\* C10 as stated (per-destination ordering): the sequence of elements handed to the
\* transport for a destination, batches in the order of the transport send calls, is in
\* the order of their successful reservations, within a batch and across batches.
PerDestinationOrderAsStated ==
    \A d \in Ranks :
        LET f == TransmitOrder(d, Len(transmitted[d]))
        IN \A p, q \in 1..Len(f) : p < q => ResvPos(d, f[p]) < ResvPos(d, f[q])
\* C10 as amended: every batch handed to the transport holds the elements of exactly one
\* generation of the buffer, in the order of their reservations, and reservations of a
\* later generation follow those of an earlier one; the batches of two generations may be
\* handed to the transport in either order.
PerGenerationOrder ==
    \A d \in Ranks :
        /\ \A i \in 1..Len(transmitted[d]) :
              transmitted[d][i].elems = GenElems(d, transmitted[d][i].gen)
        /\ \A p, q \in 1..Len(resv[d]) :
              p < q => \/ resv[d][p].gen < resv[d][q].gen
                       \/ resv[d][p].gen = resv[d][q].gen /\ resv[d][p].slot < resv[d][q].slot
\* a destination was handed the batch of a later generation before that of an earlier one
PerGenerationOrderWitness ==
    \E d \in Ranks : \E i, j \in 1..Len(transmitted[d]) :
        i < j /\ transmitted[d][i].gen > transmitted[d][j].gen

(* --------------------------- fair scheduling --------------------------- *)
\* producers send to rank 0 under a heuristic whose execute() returns false, flushers run
\* flush; the owner is not destroyed
NextLive ==
    \/ \E t \in Producers : SendCall(t, 0)
    \/ \E t \in Threads : Step(t)
    \/ \E t \in Producers : SendHeuristic(t, FALSE)
    \/ \E t \in Flushers : FlushCall(t)
\* every thread that is inside a member function keeps being scheduled
Fairness ==
    \A t \in Threads : /\ WF_vars(Step(t))
                       /\ WF_vars(\E enable_flush \in BOOLEAN : SendHeuristic(t, enable_flush))
SpecLive == Init /\ [][NextLive]_vars /\ Fairness

\* a few sends to rank 0 whose execute() may return either value, so that the flushes of
\* producers and flushers run beside each other and beside the sends
NextLiveFlush ==
    \/ \E t \in Producers : SentUpTo(NumThreads) < MaxLiveSends /\ SendCall(t, 0)
    \/ \E t \in Threads : Step(t)
    \/ \E t \in Producers, enable_flush \in BOOLEAN : SendHeuristic(t, enable_flush)
    \/ \E t \in Flushers : FlushCall(t)
SpecLiveFlush == Init /\ [][NextLiveFlush]_vars /\ Fairness

(* ------------------------------ C11 ------------------------------------ *)
\* thread t is inside send: before its heuristic call, or in the flush that call asked for
InSend(t) == arg[t] # 0
NextRecycle ==
    \/ \E t \in Producers, d \in Ranks : SendCall(t, d)
    \/ \E t \in Threads : Step(t)
    \/ \E t \in Producers : SendHeuristic(t, FALSE)
    \/ \E t \in Flushers : FlushCall(t)
    \/ SendComplete
SpecRecycle == Init /\ [][NextRecycle]_vars

\* the regions installed as the current region of a buffer
Installed == {data_owner[d] : d \in Ranks} \ {NoRegion}
\* the threads that own a region they swapped out of a buffer and have not yet handed over
Carrying == {t \in Threads : pc[t] \in {"sb_clear2", "sb_send"}}
DefaultExecute == BOOLEAN
\* a few sends to every rank under the default heuristic, beside flushers running flush
NextDefault ==
    \/ \E t \in Producers, d \in Ranks : SentUpTo(NumThreads) < MaxLiveSends /\ SendCall(t, d)
    \/ \E t \in Threads : Step(t)
    \/ \E t \in Producers, enable_flush \in DefaultExecute : SendHeuristic(t, enable_flush)
    \/ \E t \in Flushers : FlushCall(t)
SpecDefault == Init /\ [][NextDefault]_vars

\* thread t takes a step
ThreadStep(t) ==
    <<pc[t], dest[t], my_id[t], fi[t], sb_my_id[t], send_data[t], new_owner[t], arg[t]>>'
        # <<pc[t], dest[t], my_id[t], fi[t], sb_my_id[t], send_data[t], new_owner[t], arg[t]>>
\* the destination of the send call thread t is in
SendDest(t) ==
    IF \E d \in Ranks : \E j \in 1..Len(resv[d]) : resv[d][j].arg = arg[t]
    THEN CHOOSE d \in Ranks : \E j \in 1..Len(resv[d]) : resv[d][j].arg = arg[t]
    ELSE dest[t]

(* ------------------------------ C14 ------------------------------------ *)
\* C14 (destination independence): with the default heuristic, no step of send(arg, d)
\* changes the buffer of another destination, what that destination was handed, or any
\* last_active entry; and every batch handed to the transport for a destination holds the
\* arguments sent to that destination, in reservation order.
DestinationIndependence ==
    /\ [][\A t \in Producers :
             (InSend(t) /\ ThreadStep(t)) =>
                 /\ last_active' = last_active
                 /\ \A e \in Ranks \ {SendDest(t)} :
                       /\ count_allocated'[e] = count_allocated[e]
                       /\ count_written'[e] = count_written[e]
                       /\ registered_with_td'[e] = registered_with_td[e]
                       /\ data_owner'[e] = data_owner[e]
                       /\ mem'[data_owner[e]] = mem[data_owner[e]]
                       /\ transmitted'[e] = transmitted[e]]_vars
    /\ [](\A d \in Ranks : \A i \in 1..Len(transmitted[d]) :
              transmitted[d][i].elems = GenElems(d, transmitted[d][i].gen))

(* ------------------------------ C15 ------------------------------------ *)
\* C15 (default heuristic): with the default heuristic execute() returns false on every
\* call, so no send call is ever inside flush.
DefaultNeverFlushes ==
    \A t \in Threads : InSend(t) => (fi[t] = -1 /\ pc[t] \notin {"f_load", "f_cmp", "f_store", "f_cas"})

(* ------------------- the relative-velocity heuristic ------------------- *)
\* everything but the heuristic's state and the position of the threads
NotHeur == <<shared, transmitted, td_notified, gen, resv, nsent, fret, phase, cycles, q_mark, watch, apart, dest, arg, my_id, fi, sb_my_id, send_data, new_owner, send_gen>>
\* a producer calls execute(): message_cnt.fetch_add(1)
ExecuteFetchAdd(t) ==
    /\ pc[t] = "idle"
    /\ alive
    /\ h_calls < MaxExecutes
    /\ h_calls' = h_calls + 1
    /\ message_cnt' = FetchAdd(message_cnt)
    /\ h_local' = [h_local EXCEPT ![t] = [hit |-> FetchAdd(message_cnt) = msg_count_thres, drop |-> FALSE, ret |-> "none"]]
    /\ pc' = [pc EXCEPT ![t] = "h_clear"]
    /\ UNCHANGED <<NotHeur, heur_enable_flush>>
\* enable_flush = false
ExecuteClear(t) ==
    /\ pc[t] = "h_clear"
    /\ heur_enable_flush' = FALSE
    /\ pc' = [pc EXCEPT ![t] = "h_load"]
    /\ UNCHANGED <<NotHeur, message_cnt, h_local, h_calls>>
\* if (message_cnt.load() == rh_gen.msg_count_thres)
ExecuteLoad(t) ==
    /\ pc[t] = "h_load"
    /\ pc' = [pc EXCEPT ![t] = IF message_cnt = msg_count_thres THEN "h_window" ELSE "h_ret"]
    /\ UNCHANGED <<NotHeur, heur>>
\* the end of a window: the velocity is measured (velocity_dropped is the outcome of
\* `velocity > vel`), enable_flush is set when it dropped, the window restarts
ExecuteWindow(t, velocity_dropped) ==
    /\ pc[t] = "h_window"
    /\ heur_enable_flush' = IF velocity_dropped THEN TRUE ELSE heur_enable_flush
    /\ h_local' = [h_local EXCEPT ![t].drop = velocity_dropped]
    /\ pc' = [pc EXCEPT ![t] = "h_store"]
    /\ UNCHANGED <<NotHeur, message_cnt, h_calls>>
\* message_cnt.store(0)
ExecuteStore(t) ==
    /\ pc[t] = "h_store"
    /\ message_cnt' = 0
    /\ pc' = [pc EXCEPT ![t] = "h_ret"]
    /\ UNCHANGED <<NotHeur, heur_enable_flush, h_local, h_calls>>
\* return enable_flush
ExecuteReturn(t) ==
    /\ pc[t] = "h_ret"
    /\ h_local' = [h_local EXCEPT ![t].ret = IF heur_enable_flush THEN "true" ELSE "false"]
    /\ pc' = [pc EXCEPT ![t] = "idle"]
    /\ UNCHANGED <<NotHeur, message_cnt, heur_enable_flush, h_calls>>
\* the producers call execute() of the one heuristic object they share, each call reading
\* and writing its members in its own time
NextVelocity ==
    \/ \E t \in Producers : ExecuteFetchAdd(t)
    \/ \E t \in Producers : ExecuteClear(t)
    \/ \E t \in Producers : ExecuteLoad(t)
    \/ \E t \in Producers, velocity_dropped \in BOOLEAN : ExecuteWindow(t, velocity_dropped)
    \/ \E t \in Producers : ExecuteStore(t)
    \/ \E t \in Producers : ExecuteReturn(t)
SpecVelocity == Init /\ [][NextVelocity]_vars

(* ------------------------------ C16 ------------------------------------ *)
\* C16 (relative-velocity heuristic): execute() returns true only on a call whose own
\* increment brought message_cnt to msg_count_thres and that measured a drop of the
\* velocity; every other call returns false, also when producers call it concurrently.
VelocityHeuristic ==
    \A t \in Producers : h_local[t].ret = "true" => (h_local[t].hit /\ h_local[t].drop)

(* ------------------------ contract violations -------------------------- *)
\* transport::is_valid_rank
is_valid_rank(r) == r \in Ranks
\* the ranks a caller may pass to send: the valid ones and one past them
AnyRank == 0..NumRanks
\* before the constructor body runs: the buffers are default-constructed and own no region,
\* alive is already true; the capacity argument is zero or coalescing_size
InitContract ==
    /\ count_allocated = [d \in Ranks |-> 0]
    /\ count_written = [d \in Ranks |-> 0]
    /\ registered_with_td = [d \in Ranks |-> FALSE]
    /\ data_owner = [d \in Ranks |-> NoRegion]
    /\ last_active = [d \in Ranks |-> 0]
    /\ alive = TRUE
    /\ mem = [r \in RegionIds |-> EmptyRegion]
    /\ cache_free = 0
    /\ cache_made = 0
    /\ in_flight = 0
    /\ transmitted = [d \in Ranks |-> <<>>]
    /\ td_notified = [d \in Ranks |-> <<0>>]
    /\ gen = [d \in Ranks |-> 0]
    /\ resv = [d \in Ranks |-> <<>>]
    /\ nsent = [t \in Threads |-> 0]
    /\ fret = "none"
    /\ phase = "unbuilt"
    /\ cycles = 0
    /\ q_mark = [d \in Ranks |-> 0]
    /\ touched = [d \in Ranks |-> FALSE]
    /\ quiet = [t \in Threads |-> TRUE]
    /\ message_cnt = 0
    /\ heur_enable_flush = FALSE
    /\ h_local = [t \in Threads |-> [hit |-> FALSE, drop |-> FALSE, ret |-> "none"]]
    /\ h_calls = 0
    /\ gen_coalescing_size \in {0, coalescing_size}
    /\ inbound = [pc |-> "idle", src |-> 0, orig |-> <<>>, buf |-> <<>>, count |-> 0, i |-> 0, sorter |-> "dummy", sorts |-> 0, calls |-> <<>>, batches |-> 0]
    /\ ids = [next |-> 0, held |-> {}, ret |-> -1, held_before |-> {}, calls |-> 0]
    /\ sig = [handlers |-> <<>>, made |-> 0, gone |-> {}, pc |-> "idle", i |-> 0, called |-> <<>>, ops |-> 0]
    /\ ab = [size |-> 0, data |-> [k \in 0..(MaxPushes - 1) |-> 0], pcs |-> [t \in Threads |-> "idle"],
             idx |-> [t \in Threads |-> 0], val |-> [t \in Threads |-> 0], rets |-> {}, calls |-> 0]
    /\ tp = TpInit
    /\ bar = BarInit
    /\ pc = [t \in Threads |-> "idle"]
    /\ dest = [t \in Threads |-> 0]
    /\ arg = [t \in Threads |-> 0]
    /\ my_id = [t \in Threads |-> 0]
    /\ fi = [t \in Threads |-> -1]
    /\ sb_my_id = [t \in Threads |-> 0]
    /\ send_data = [t \in Threads |-> NoRegion]
    /\ new_owner = [t \in Threads |-> NoRegion]
    /\ send_gen = [t \in Threads |-> 0]
\* the constructor body: assert (coalescing_size != 0), then every destination's buffer is
\* cleared onto a region allocated from the cache
Construct ==
    /\ phase = "unbuilt"
    /\ IF gen_coalescing_size = 0
       THEN /\ phase' = "abort"
            /\ UNCHANGED <<data_owner, cache_made>>
       ELSE /\ phase' = "run"
            /\ data_owner' = [d \in Ranks |-> d + 1]
            /\ cache_made' = NumRanks
    /\ UNCHANGED <<count_allocated, count_written, registered_with_td, last_active, alive, mem, cache_free, in_flight>>
    /\ UNCHANGED <<transmitted, td_notified, gen, resv, nsent, fret, cycles, q_mark, heur, watch, apart, locals>>
\* send(arg, d) on a live instance: assert (trans.is_valid_rank(dest)), then the send proper
SendChecked(t, d) ==
    IF is_valid_rank(d)
    THEN SendCall(t, d)
    ELSE /\ pc[t] = "idle"
         /\ alive
         /\ phase = "run"
         /\ phase' = "abort"
         /\ pc' = [pc EXCEPT ![t] = "abort"]
         /\ dest' = [dest EXCEPT ![t] = d]
         /\ UNCHANGED <<shared, transmitted, td_notified, gen, resv, nsent, fret, cycles, q_mark, heur, watch, apart>>
         /\ UNCHANGED <<arg, my_id, fi, sb_my_id, send_data, new_owner, send_gen>>
\* send(arg, d) after the destructor ran. The rank assertion passes and nothing in send
\* tests alive; outgoing_buffers was cleared, so buf refers to a destroyed element and the
\* behaviour is undefined. Either the call is stopped (stopped = TRUE: a checked
\* operator[], or max_count reading as 0 at assert (max_count > 0)), or the storage the
\* vector still holds reads as it was left and the call goes on to its fetch_add on
\* count_allocated, after which the model follows the thread no further.
SendDestroyed(t, d, stopped) ==
    /\ pc[t] = "idle"
    /\ ~alive
    /\ phase = "run"
    /\ is_valid_rank(d)
    /\ dest' = [dest EXCEPT ![t] = d]
    /\ IF stopped
       THEN /\ phase' = "abort"
            /\ pc' = [pc EXCEPT ![t] = "abort"]
            /\ UNCHANGED count_allocated
       ELSE /\ IsOpen(count_allocated[d], max_count)
            /\ count_allocated' = [count_allocated EXCEPT ![d] = FetchAdd(@)]
            /\ pc' = [pc EXCEPT ![t] = "undefined"]
            /\ UNCHANGED phase
    /\ UNCHANGED <<count_written, registered_with_td, data_owner, last_active, alive, mem, cache_free, cache_made, in_flight>>
    /\ UNCHANGED <<transmitted, td_notified, gen, resv, nsent, fret, cycles, q_mark, heur, watch, apart>>
    /\ UNCHANGED <<arg, my_id, fi, sb_my_id, send_data, new_owner, send_gen>>
\* an instance is constructed, producers send to any rank and flushers flush, the instance
\* is destroyed and producers go on sending; a failed assertion ends the program
NextContract ==
    \/ Construct
    \/ \E t \in Producers, d \in AnyRank : SendChecked(t, d)
    \/ \E t \in Producers, d \in Ranks, stopped \in BOOLEAN : SendDestroyed(t, d, stopped)
    \/ \E t \in Threads : phase = "run" /\ Step(t)
    \/ \E t \in Producers : phase = "run" /\ SendHeuristic(t, FALSE)
    \/ \E t \in Flushers : phase = "run" /\ FlushCall(t)
    \/ phase = "run" /\ Destroy
SpecContract == InitContract /\ [][NextContract]_vars

(* ------------------------------ C17 ------------------------------------ *)
\* thread t enters send in this step
SendEntered(t) == pc[t] = "idle" /\ pc'[t] # "idle"
\* C17 (contract violations): a send to an invalid rank, a construction with
\* coalescing_size = 0 and a send on a destroyed instance each trip an assertion, and
\* that step leaves the buffers, the cache and the transport as they were.
ContractAssertions ==
    /\ [][(phase = "unbuilt" /\ gen_coalescing_size = 0 /\ phase' # "unbuilt")
             => (phase' = "abort" /\ UNCHANGED shared)]_vars
    /\ [][\A t \in Producers :
             (SendEntered(t) /\ ~is_valid_rank(dest'[t]))
                 => (phase' = "abort" /\ pc'[t] = "abort" /\ UNCHANGED shared)]_vars
    /\ [][\A t \in Producers :
             (SendEntered(t) /\ ~alive)
                 => (phase' = "abort" /\ pc'[t] = "abort" /\ UNCHANGED shared)]_vars

(* ------------------------ repeated flush calls ------------------------- *)
\* producers send to rank 0 and execute() may return either value, so that flush runs in
\* producers and flushers at once; then the producers stop and the flushers call flush
\* again and again
NextIdem ==
    \/ \E t \in Producers : SendCall(t, 0)
    \/ \E t \in Threads : Step(t)
    \/ \E t \in Producers, enable_flush \in BOOLEAN : SendHeuristic(t, enable_flush)
    \/ \E t \in Flushers : FlushCall(t)
    \/ Quiesce
SpecIdem == Init /\ [][NextIdem]_vars

(* ------------------------------ C18 ------------------------------------ *)
\* no element was handed to the transport twice for destination d
HandedOnce(d) ==
    \A i \in 1..Len(transmitted[d]) : \A k \in 1..Len(transmitted[d][i].elems) :
        Cardinality(Occurrences(d, transmitted[d][i].elems[k])) = 1
NotInbound == <<shared, transmitted, td_notified, gen, resv, nsent, fret, phase, cycles, q_mark, heur, watch, gen_coalescing_size, ids, sig, ab, tp, bar, locals>>
\* the batches the transport may deliver: up to MaxCount elements
InboundData == UNION {[1..n -> 1..MaxValue] : n \in 0..MaxCount}
\* DummyBufferSorter::sort, the default sorter: it leaves the batch as it is
DummySort(buf) == buf
\* a sorter a user configured: it puts the elements in ascending order
RECURSIVE InsertAscending(_, _)
InsertAscending(sorted, x) ==
    IF sorted = <<>> THEN <<x>>
    ELSE IF x < Head(sorted) THEN <<x>> \o sorted
    ELSE <<Head(sorted)>> \o InsertAscending(Tail(sorted), x)
RECURSIVE AscendingSort(_)
AscendingSort(buf) ==
    IF buf = <<>> THEN <<>> ELSE InsertAscending(AscendingSort(Tail(buf)), Head(buf))
\* buf_sorter.sort(buf, buf + count)
BufferSort(sorter, buf) == IF sorter = "dummy" THEN DummySort(buf) ELSE AscendingSort(buf)
\* the test of the dispatch loop with one element left out
LoopStopsEarly(i, count) == i + 1 < count
\* for (size_t i = 0; i < count; ++i)
LoopContinues(i, count) == i < count
\* buf[i]
Element(buf, i) == buf[i + 1]
\* the transport calls raw_message_handler::operator()(src, buf, count)
Deliver(src, data, sorter) ==
    /\ inbound.pc = "idle"
    /\ inbound.batches < MaxBatches
    /\ inbound' = [pc |-> "sort", src |-> src, orig |-> data, buf |-> data, count |-> Len(data), i |-> 0,
                   sorter |-> sorter, sorts |-> 0, calls |-> <<>>, batches |-> inbound.batches + 1]
    /\ UNCHANGED NotInbound
\* BufferSorter buf_sorter = mt.get_buffer_sorter(); buf_sorter.sort(buf, buf + count)
DispatchSort ==
    /\ inbound.pc = "sort"
    /\ inbound' = [inbound EXCEPT !.pc = "loop", !.buf = BufferSort(inbound.sorter, inbound.buf), !.sorts = @ + 1]
    /\ UNCHANGED NotInbound
\* one iteration of the loop: h(src, buf[i])
DispatchHandle ==
    /\ inbound.pc = "loop"
    /\ LoopContinues(inbound.i, inbound.count)
    /\ inbound' = [inbound EXCEPT !.calls = Append(@, <<inbound.src, Element(inbound.buf, inbound.i)>>), !.i = @ + 1]
    /\ UNCHANGED NotInbound
\* the loop ends and operator() returns
DispatchReturn ==
    /\ inbound.pc = "loop"
    /\ ~LoopContinues(inbound.i, inbound.count)
    /\ inbound' = [inbound EXCEPT !.pc = "idle"]
    /\ UNCHANGED NotInbound
\* the transport delivers batches from any source, one after the other, to message types
\* with the default sorter and with a sorting one
NextInbound ==
    \/ \E src \in Ranks, data \in InboundData, sorter \in {"dummy", "ascending"} : Deliver(src, data, sorter)
    \/ DispatchSort
    \/ DispatchHandle
    \/ DispatchReturn
SpecInbound == Init /\ [][NextInbound]_vars

(* ------------------------------ C19 ------------------------------------ *)
\* the number of elements of s equal to x
CountIn(s, x) == Cardinality({k \in 1..Len(s) : s[k] = x})
\* s holds the elements of r, each as often as r does
Permutation(s, r) == Len(s) = Len(r) /\ \A x \in 1..MaxValue : CountIn(s, x) = CountIn(r, x)
\* C19 (inbound dispatch): for every inbound batch (src, data, count) the sorter is applied
\* once, to the whole batch, before the first handler call; the handler is then invoked
\* once per element in index order of the sorted batch, count times in all, each time with
\* the batch's src; with the default sorter the handler sees the transmitted order.
InboundDispatch ==
    /\ inbound.pc = "sort" => (inbound.sorts = 0 /\ inbound.calls = <<>>)
    /\ (inbound.pc \in {"loop", "idle"} /\ inbound.batches > 0) =>
          /\ inbound.sorts = 1
          /\ Permutation(inbound.buf, inbound.orig)
          /\ inbound.sorter = "ascending" =>
                 \A k \in 1..(Len(inbound.buf) - 1) : inbound.buf[k] <= inbound.buf[k + 1]
          /\ inbound.sorter = "dummy" => inbound.buf = inbound.orig
          /\ inbound.calls = [k \in 1..inbound.i |-> <<inbound.src, inbound.buf[k]>>]
    /\ (inbound.pc = "idle" /\ inbound.batches > 0) => Len(inbound.calls) = inbound.count
\* a batch of MaxCount elements that were not in ascending order has been dispatched
\* under the default sorter
InboundDispatchWitness ==
    /\ inbound.pc = "idle" /\ inbound.batches > 0
    /\ inbound.sorter = "dummy" /\ inbound.count = MaxCount
    /\ inbound.orig[1] > inbound.orig[2]
    /\ Len(inbound.calls) = MaxCount

(* ------------------------------ id_assigner ---------------------------- *)
\* everything but the id_assigner
NotIds == <<shared, transmitted, td_notified, gen, resv, nsent, fret, phase, cycles, q_mark, heur, watch, gen_coalescing_size, inbound, sig, ab, tp, bar, locals>>
\* every ID below next is a candidate, held or not
ReusableOrHeld(next, held) == 0..(next - 1)
\* no freed ID is ever found
NeverReused(next, held) == {}
\* the IDs that were handed out and freed since: the ones allocate() reuses
Reusable(next, held) == (0..(next - 1)) \ held
\* allocate(): a freed ID when there is one (the tests fix no order among several), or
\* else the next ID never handed out; IDs start at 0
IdAllocate(id) ==
    /\ ids.calls < MaxIdCalls
    /\ Cardinality(ids.held) < MaxIds
    /\ id \in (IF Reusable(ids.next, ids.held) = {} THEN {ids.next} ELSE Reusable(ids.next, ids.held))
    /\ ids' = [next |-> IF id = ids.next THEN ids.next + 1 ELSE ids.next,
               held |-> ids.held \cup {id},
               ret |-> id,
               held_before |-> ids.held,
               calls |-> ids.calls + 1]
    /\ UNCHANGED NotIds
\* free(id), called with an ID that is allocated: the ID becomes available for reuse
IdFree(id) ==
    /\ ids.calls < MaxIdCalls
    /\ id \in ids.held
    /\ ids' = [ids EXCEPT !.held = @ \ {id}, !.ret = -1, !.held_before = ids.held, !.calls = @ + 1]
    /\ UNCHANGED NotIds
\* any sequence of allocate() calls and of free() calls on allocated IDs
NextIds ==
    \/ \E id \in 0..MaxIdCalls : IdAllocate(id)
    \/ \E id \in 0..MaxIdCalls : IdFree(id)
SpecIds == Init /\ [][NextIds]_vars

(* ------------------------------ C20 ------------------------------------ *)
\* C20 (id_assigner): over any sequence of allocate() and free() calls, the ID an
\* allocate() call returns was not allocated when the call was made (returned earlier and
\* not freed since).
IdUniqueness ==
    /\ ids.ret # -1 => ids.ret \notin ids.held_before
    /\ ids.held \subseteq 0..(ids.next - 1)
\* allocate() has just reused a freed ID that lies between two IDs still allocated
IdUniquenessWitness ==
    /\ ids.ret # -1
    /\ \E a, b \in ids.held_before : a < ids.ret /\ ids.ret < b

(* ------------------------------ C21 ------------------------------------ *)
\* this step is an allocate() call
IdAllocated == ids'.calls = ids.calls + 1 /\ ids'.ret # -1
\* the IDs handed out earlier, freed since and not handed out again
IdFreed == {i \in 0..MaxIdCalls : i < ids.next /\ i \notin ids.held}
\* C21 (id_assigner reuse): allocate() hands out a previously freed ID whenever one exists
\* and otherwise the next never-used ID: with nothing freed the IDs are 0, 1, 2, ... in
\* order, and freed IDs (the highest one included) all come back before any new ID.
IdReuseFirst ==
    [][IdAllocated =>
          IF IdFreed # {}
          THEN ids'.ret \in IdFreed /\ ids'.next = ids.next
          ELSE ids'.ret = Cardinality(ids.held) /\ ids'.next = ids'.ret + 1]_vars
\* two IDs were freed, the highest one among them, and allocate() has handed both out
\* again: every ID made so far is held and the last one returned is not the highest
IdReuseFirstWitness ==
    /\ ids.ret # -1 /\ ids.ret < ids.next - 1
    /\ ids.held = 0..(ids.next - 1)
    /\ Cardinality(ids.held_before) = ids.next - 1
    /\ ids.calls >= ids.next + 4

(* -------------------------------- signal ------------------------------- *)
\* everything but the signal
NotSig == <<shared, transmitted, td_notified, gen, resv, nsent, fret, phase, cycles, q_mark, heur, watch, gen_coalescing_size, inbound, ids, ab, tp, bar, locals>>
\* the handles of the attached handlers
Attached == {sig.handlers[k] : k \in 1..Len(sig.handlers)}
\* the handlers with h taken out by moving the last one into its place
WithoutSwapping(handlers, h) ==
    LET n == Len(handlers)
        k == CHOOSE j \in 1..n : handlers[j] = h
    IN [j \in 1..(n - 1) |-> IF j = k THEN handlers[n] ELSE handlers[j]]
\* the handlers with h taken out, the others as they were
Without(handlers, h) == SelectSeq(handlers, LAMBDA x : x # h)
\* attach(f): the handler goes to the end of the list; its handle is returned
SigAttach ==
    /\ sig.pc = "idle"
    /\ sig.ops < MaxSigOps
    /\ Len(sig.handlers) < MaxHandlers
    /\ sig' = [sig EXCEPT !.handlers = Append(@, sig.made + 1), !.made = @ + 1, !.ops = @ + 1]
    /\ UNCHANGED NotSig
\* detach(h), called with the handle of an attached handler
SigDetach(h) ==
    /\ sig.pc = "idle"
    /\ sig.ops < MaxSigOps
    /\ h \in Attached
    /\ sig' = [sig EXCEPT !.handlers = Without(@, h), !.gone = @ \cup {h}, !.ops = @ + 1]
    /\ UNCHANGED NotSig
\* operator(): the emission starts
SigEmit ==
    /\ sig.pc = "idle"
    /\ sig.ops < MaxSigOps
    /\ sig' = [sig EXCEPT !.pc = "emit", !.i = 0, !.called = <<>>, !.ops = @ + 1]
    /\ UNCHANGED NotSig
\* the emission calls the next handler of the list
SigCall ==
    /\ sig.pc = "emit"
    /\ sig.i < Len(sig.handlers)
    /\ sig' = [sig EXCEPT !.called = Append(@, sig.handlers[sig.i + 1]), !.i = @ + 1]
    /\ UNCHANGED NotSig
\* the emission has called every handler and returns
SigReturn ==
    /\ sig.pc = "emit"
    /\ sig.i = Len(sig.handlers)
    /\ sig' = [sig EXCEPT !.pc = "idle"]
    /\ UNCHANGED NotSig
\* one thread attaches handlers, detaches them and emits the signal, in any order
NextSig ==
    \/ SigAttach
    \/ \E h \in 1..MaxSigOps : SigDetach(h)
    \/ SigEmit
    \/ SigCall
    \/ SigReturn
SpecSig == Init /\ [][NextSig]_vars

(* ------------------------------ C22 ------------------------------------ *)
\* C22 (signal): each emission calls exactly the currently attached handlers, each once,
\* in attachment order (handles are numbered in the order of the attach calls); detach(h)
\* removes only h and keeps the order of the others; a detached handler is not called by
\* a later emission.
SignalOrder ==
    /\ Attached = (1..sig.made) \ sig.gone
    /\ \A j, k \in 1..Len(sig.handlers) : j < k => sig.handlers[j] < sig.handlers[k]
    /\ sig.pc = "emit" =>
          /\ \A k \in 1..Len(sig.called) : sig.called[k] \notin sig.gone
          /\ \A j, k \in 1..Len(sig.called) : j < k => sig.called[j] < sig.called[k]
          /\ Len(sig.called) = sig.i
          /\ {sig.called[k] : k \in 1..Len(sig.called)} \subseteq Attached
          /\ sig.i = Len(sig.handlers) => {sig.called[k] : k \in 1..Len(sig.called)} = Attached
\* an emission has called the two handlers that remain after the middle one of three was
\* detached
SignalOrderWitness ==
    /\ sig.pc = "emit" /\ sig.i = Len(sig.handlers)
    /\ sig.called = <<1, 3>>
    /\ sig.gone = {2}

(* ----------------------------- append_buffer --------------------------- *)
\* everything but the append_buffer
NotAb == <<shared, transmitted, td_notified, gen, resv, nsent, fret, phase, cycles, q_mark, heur, watch, gen_coalescing_size, inbound, ids, sig, tp, bar, locals>>
\* the size after a push_back whose increment was overwritten by another one
SizeAfterLostUpdate(size) == IF size > 0 THEN size ELSE size + 1
\* the size after a push_back reserved its index: one atomic increment
SizeAfterPush(size) == size + 1
\* push_back(v): the call reserves the next index with one atomic increment of the size
AbReserve(t) ==
    /\ ab.pcs[t] = "idle"
    /\ ab.calls < MaxPushes
    /\ ab' = [ab EXCEPT !.size = SizeAfterPush(@), !.idx[t] = ab.size, !.val[t] = ab.calls + 1,
                        !.calls = @ + 1, !.pcs[t] = "store"]
    /\ UNCHANGED NotAb
\* the call stores the value in the slot it reserved
AbStore(t) ==
    /\ ab.pcs[t] = "store"
    /\ ab' = [ab EXCEPT !.data[ab.idx[t]] = ab.val[t], !.pcs[t] = "ret"]
    /\ UNCHANGED NotAb
\* the call returns its index
AbReturn(t) ==
    /\ ab.pcs[t] = "ret"
    /\ ab' = [ab EXCEPT !.rets = @ \cup {<<ab.idx[t], ab.val[t]>>}, !.pcs[t] = "idle"]
    /\ UNCHANGED NotAb
\* the threads call push_back at the same time, each call with a value of its own
NextAb ==
    \/ \E t \in Threads : AbReserve(t)
    \/ \E t \in Threads : AbStore(t)
    \/ \E t \in Threads : AbReturn(t)
SpecAb == Init /\ [][NextAb]_vars

(* ------------------------------ C23 ------------------------------------ *)
\* C23 (append_buffer): concurrent push_back calls return pairwise distinct indices,
\* buf[idx] holds the value pushed by the call that returned idx, and once all calls have
\* completed size() equals the number of push_back calls.
AppendAtomic ==
    /\ \A p, q \in ab.rets : p[1] = q[1] => p = q
    /\ \A p \in ab.rets : ab.data[p[1]] = p[2]
    /\ (\A t \in Threads : ab.pcs[t] = "idle") =>
          (ab.size = ab.calls /\ Cardinality(ab.rets) = ab.calls)
\* two push_back calls are in progress at once, each with an index reserved and its value
\* not yet stored, and a call that reserved a later index than one of them has returned
AppendAtomicWitness ==
    /\ \E t, u \in Threads : t # u /\ ab.pcs[t] = "store" /\ ab.pcs[u] = "store"
    /\ \E p \in ab.rets : \E t \in Threads : ab.pcs[t] = "store" /\ ab.idx[t] < p[1]

(* ------------------------------ C24 ------------------------------------ *)
\* C24 as stated (counter bounds): in every reachable state of every message buffer,
\* count_written <= (count_allocated & count_mask) <= max_count, also while producers
\* that lost a reservation race have incremented the word and while sender_active is set.
CounterBoundsAsStated ==
    \A d \in Ranks :
        /\ count_written[d] <= CountOf(count_allocated[d])
        /\ CountOf(count_allocated[d]) <= max_count
\* C24 (counter bounds): in every reachable state of every message buffer,
\* count_written <= max_count; while sender_active is clear,
\* count_written <= (count_allocated & count_mask) <= max_count + NumProducers - 1, the
\* excess being the increments of producers that lost a reservation race; while
\* sender_active is set the count field holds only such increments, at most NumProducers.
CounterBounds ==
    \A d \in Ranks :
        /\ count_written[d] <= max_count
        /\ ~HasSender(count_allocated[d]) =>
              /\ count_written[d] <= CountOf(count_allocated[d])
              /\ CountOf(count_allocated[d]) <= max_count + NumProducers - 1
        /\ HasSender(count_allocated[d]) => CountOf(count_allocated[d]) <= NumProducers
\* a producer that lost the race for the last slot has pushed the count field past
\* max_count while the winner has not yet set sender_active
CounterBoundsWitness ==
    \E d \in Ranks :
        /\ ~HasSender(count_allocated[d])
        /\ CountOf(count_allocated[d]) > max_count
        /\ \E t \in Producers : pc[t] = "s_store_sa" /\ dest[t] = d

(* ------------------------------ C25 ------------------------------------ *)
\* thread u executes its fetch_add in this step
FetchAddStep(u) == pc[u] = "s_fadd" /\ pc'[u] # "s_fadd"
\* C25 (sender_active holds): from the store or compare-exchange by which a thread sets
\* sender_active on a buffer until that thread's clear, the bit stays set in
\* count_allocated, and every fetch_add on that buffer is rejected and retried: it adds no
\* reservation, whatever it does to the count field.
SenderActiveHolds ==
    /\ [](\A d \in Ranks : (\E t \in Threads : HoldsSender(t, d)) => HasSender(count_allocated[d]))
    /\ [][\A u \in Threads :
             (FetchAddStep(u) /\ \E t \in Threads : HoldsSender(t, dest[u])) =>
                 /\ pc'[u] = "s_spin"
                 /\ resv' = resv
                 /\ HasSender(count_allocated'[dest[u]])]_vars
\* a producer that passed the spin test before the buffer was closed is about to execute
\* its fetch_add while a flush that stole the buffer waits for publication
SenderActiveHoldsWitness ==
    \E u \in Producers, t \in Threads :
        /\ pc[u] = "s_fadd" /\ HoldsSender(t, dest[u])
        /\ pc[t] = "sb_wait" /\ fi[t] >= 0
        /\ CountOf(count_allocated[dest[u]]) > 0

(* ------------------------------ C26 ------------------------------------ *)
\* the notifications of the termination detector for epoch g of d's buffer: the calls of
\* mt.message_being_built made, and those about to be made by a thread whose exchange of
\* registered_with_td returned false in that epoch
EpochNotes(d, g) ==
    td_notified[d][g + 1]
    + Cardinality({t \in Threads : pc[t] = "m_notify" /\ dest[t] = d /\ send_gen[t] = g})
    + Cardinality({t \in Threads : pc[t] = "s_notify" /\ dest[t] = d /\ gen[d] = g})
\* registered_with_td of d's buffer goes from false to true in this step
Registers(d) == ~registered_with_td[d] /\ registered_with_td'[d]
\* thread t, a producer holding slot k of d's buffer, executes its exchange in this step
ExchangeBySlot(t, d, k) ==
    pc[t] = "s_reg" /\ pc'[t] = "s_notify" /\ dest[t] = d /\ CountOf(my_id[t]) = k
Steals(t, d) == pc[t] = "f_cas" /\ dest[t] = d /\ pc'[t] = "sb_wait"
\* C27 (quiescence before stealing): flush takes a partial buffer for destination r only if
\* no send reserved a slot in it since the previous flush cycle observed it; a buffer into
\* which a send reserved a slot between two consecutive flush cycles is not stolen by the
\* second of them.
QuiescenceBeforeStealing ==
    [][\A t \in Threads : \A d \in Ranks : Steals(t, d) => quiet[t]]_vars

(* ------------------------------ C28 ------------------------------------ *)
\* send_buffer's precondition for a count of 0: the caller holds sender_active on a buffer
\* with no reserved slot, and calls send_buffer(buf, 0, d)
SendBufferZeroCall(t, d) ==
    /\ pc[t] = "idle"
    /\ alive
    /\ count_allocated[d] = 0
    /\ count_allocated' = [count_allocated EXCEPT ![d] = sender_active]
    /\ dest' = [dest EXCEPT ![t] = d]
    /\ sb_my_id' = [sb_my_id EXCEPT ![t] = 0]
    /\ pc' = [pc EXCEPT ![t] = "sb_entry"]
    /\ UNCHANGED <<count_written, registered_with_td, data_owner, last_active, alive, mem, cache_free, cache_made, in_flight>>
    /\ UNCHANGED <<history, arg, my_id, fi, send_data, new_owner, send_gen>>
\* the body of send_buffer for that call: with a count of 0 neither branch is taken and the
\* function returns false
SendBufferZero(t) ==
    /\ pc[t] = "sb_entry"
    /\ HasSender(count_allocated[dest[t]])
    /\ IF SendBufferEntry(sb_my_id[t]) = "sb_wait"
       THEN /\ pc' = [pc EXCEPT ![t] = "sb_wait"]
            /\ UNCHANGED dest
       ELSE /\ pc' = [pc EXCEPT ![t] = "idle"]
            /\ dest' = [dest EXCEPT ![t] = 0]
    /\ UNCHANGED <<shared, history, arg, my_id, fi, sb_my_id, send_data, new_owner, send_gen>>
\* as Next without the destructor, and a flusher may call send_buffer with a count of 0
NextSendBuffer ==
    \/ \E t \in Producers, d \in Ranks : SendCall(t, d)
    \/ \E t \in Threads : Step(t)
    \/ \E t \in Producers : SendHeuristic(t, FALSE)
    \/ \E t \in Flushers : FlushCall(t)
    \/ \E t \in Flushers, d \in Ranks : SendBufferZeroCall(t, d)
    \/ \E t \in Flushers : SendBufferZero(t)
SpecSendBuffer == Init /\ [][NextSendBuffer]_vars
SendBufferAssertions ==
    \A t \in Threads :
        /\ pc[t] = "sb_wait" =>
              /\ HasSender(count_allocated[dest[t]])
              /\ data_owner[dest[t]] # NoRegion
              /\ CountOf(sb_my_id[t]) <= max_count
        /\ pc[t] = "sb_clear1" =>
              /\ HasSender(count_allocated[dest[t]])
              /\ registered_with_td[dest[t]]
\* a flush that stole a partial buffer has finished its publication wait while a producer
\* is about to reserve a slot of the same buffer and the other destination's buffer holds
\* an element
SendBufferAssertionsWitness ==
    \E t, u \in Threads :
        /\ pc[t] = "sb_clear1" /\ fi[t] >= 0
        /\ pc[u] = "s_fadd" /\ dest[u] = dest[t]
        /\ \E d \in Ranks \ {dest[t]} : count_written[d] = 1

(* ------------------------------ C30 ------------------------------------ *)
\* as NextQuiet, and the flushers also call message_being_built on any destination
NextDrain ==
    \/ \E t \in Producers, d \in Ranks : SendCall(t, d)
    \/ \E t \in Threads : Step(t)
    \/ \E t \in Producers : SendHeuristic(t, FALSE)
    \/ \E t \in Flushers : FlushCall(t)
    \/ \E t \in Flushers, d \in Ranks : MessageBeingBuiltCall(t, d)
    \/ \E t \in Flushers : MessageBeingBuiltNotify(t)
    \/ Quiesce
SpecDrain == Init /\ [][NextDrain]_vars
\* what ~message_buffer asserts of destination d's buffer
DestructorAssertions(d) ==
    /\ count_allocated[d] = 0
    /\ count_written[d] = 0
    /\ registered_with_td[d] = FALSE
\* the number of elements the batches handed over for destination d hold
NumTransmitted(d) == Len(resv[d]) - Cardinality({i \in 1..Len(resv[d]) : ~\E j \in 1..Len(transmitted[d]) : transmitted[d][j].gen = resv[d][i].gen})
\* every call has returned, no send is called any more, and flush has run until no
\* destination's buffer holds an element
Drained ==
    /\ phase = "quiet"
    /\ \A t \in Threads : pc[t] = "idle"
    /\ \A d \in Ranks : NumTransmitted(d) = Len(resv[d])
\* C30 (drained buffers pass the destruct-time check): once all calls of send, flush and
\* message_being_built have returned and flush has drained every destination, every
\* message buffer has count_allocated = 0, count_written = 0 and registered_with_td = false.
DrainedBuffersDestructible ==
    Drained => \A d \in Ranks : DestructorAssertions(d)

(* ------------------------------ C31 ------------------------------------ *)
\* no thread is inside flush or inside a send to rank 0
SteadyIdle == \A u \in Threads : pc[u] = "idle" \/ (fi[u] = -1 /\ dest[u] # 0)
\* a send to rank 0 is called after the flush cycle that observed the one before it returned
SteadySend(t) == SteadyIdle /\ ~touched[0] /\ SendCall(t, 0)
\* a flush cycle is called after one send to rank 0 has completed since the cycle before
SteadyFlush(t) == SteadyIdle /\ touched[0] /\ FlushCall(t)
\* a steady low rate to rank 0: sends to rank 0 and flush cycles take turns, each cycle
\* observing exactly one new send; sends to the other rank run as they like
NextSteady ==
    \/ \E t \in Producers : SteadySend(t)
    \/ \E t \in Producers, d \in Ranks \ {0} : SendCall(t, d)
    \/ \E t \in Threads : Step(t)
    \/ \E t \in Producers : SendHeuristic(t, FALSE)
    \/ \E t \in Flushers : SteadyFlush(t)
SpecSteady == Init /\ [][NextSteady]_vars
InWindow == {t \in Threads : pc[t] \in {"h_window", "h_store"}}
\* C32 (relative-velocity counter): message_cnt is reset to 0 each time it reaches
\* msg_count_thres, so it stays in [0, msg_count_thres], and each arrival at the threshold
\* makes one window transition, also when producers call execute() concurrently.
VelocityCounter ==
    /\ message_cnt \in 0..msg_count_thres
    /\ Cardinality(InWindow) <= 1

(* ------------------------------ C33 ------------------------------------ *)
\* C33 (notification precedes transmission): every batch handed to the transport for
\* destination r was handed over after the termination detector had been notified of a
\* message being built for that buffer generation, in every interleaving of send, flush and
\* message_being_built.
NotificationPrecedesTransmission ==
    \A d \in Ranks : \A i \in 1..Len(transmitted[d]) : transmitted[d][i].td >= 1

(* ------------------------------ C34 ------------------------------------ *)
\* the number of calls of mt.message_being_built(d) so far, over the first n buffer generations
RECURSIVE NotifiedUpTo(_, _)
NotifiedUpTo(d, n) == IF n = 0 THEN 0 ELSE td_notified[d][n] + NotifiedUpTo(d, n - 1)
\* no thread is inside send, flush or message_being_built
Quiescent == \A t \in Threads : pc[t] = "idle"
\* C34 (notification accounting): in every quiescent state, for each destination r the
\* number of termination-detector notifications for r minus the number of batches handed to
\* the transport for r is 1 if r's buffer holds an element and 0 if it is empty.
NotificationAccounting ==
    Quiescent =>
        \A d \in Ranks :
            NotifiedUpTo(d, Len(td_notified[d])) - Len(transmitted[d]) = (IF count_allocated[d] # 0 THEN 1 ELSE 0)

(* ------------------------------ C35 ------------------------------------ *)
\* bit i of the unsigned word x
BitOf(x, i) == (x \div (2 ^ i)) % 2
\* C35 (the two bit-fields of count_allocated): sender_active is the top bit of the word and
\* count_mask the bits below it, disjoint and covering the word; the word sender_active has
\* a count field of 0; and for max_count plus the number of producers below 2^(w-1), no
\* fetch_add carries the count field into the sender_active bit or wraps a sender-active
\* word round to a value with the bit clear.
BitFieldsDisjoint ==
    /\ [](/\ \A i \in 0..(WordBits - 1) : BitOf(sender_active, i) + BitOf(count_mask, i) = 1
          /\ BitOf(sender_active, WordBits - 1) = 1
          /\ HasSender(sender_active) /\ CountOf(sender_active) = 0
          /\ \A d \in Ranks : count_allocated[d] \in 0..UINT_MAX)
    /\ [][max_count + NumProducers < 2 ^ (WordBits - 1) =>
             \A u \in Threads : FetchAddStep(u) =>
                 /\ HasSender(count_allocated'[dest[u]]) = HasSender(count_allocated[dest[u]])
                 /\ CountOf(count_allocated'[dest[u]]) = CountOf(count_allocated[dest[u]]) + 1]_vars
\* both producers lost a race: their stray increments sit in the count field of a word
\* whose sender_active bit the last-slot producer or flush has set
BitFieldsDisjointWitness ==
    \E d \in Ranks : HasSender(count_allocated[d]) /\ CountOf(count_allocated[d]) = NumProducers

(* --------------- the transport's handler and flush tasks --------------- *)
\* everything but the transport's tasks
NotTp == <<shared, transmitted, td_notified, gen, resv, nsent, fret, phase, cycles, q_mark, heur, watch, gen_coalescing_size, inbound, ids, sig, ab, bar, locals>>
\* the statements of wrapper_handler::operator() after the should_run_handlers test, with
\* the decrement of handler_calls_pending_or_active moved before the handler call
WrapperBodyEarlyRelease == <<"dec_pending", "dec_active", "handler", "handler_done">>
\* the statements of wrapper_handler::operator() after the should_run_handlers test
WrapperBody == <<"dec_pending", "handler", "handler_done", "dec_active">>
\* idle() as a test that passes whatever the two values are
IdleUnchecked(active, ending) == TRUE
\* transport::idle(), evaluated on the two values it loads
IdleValue(active, ending) == active = 0 /\ ending
\* the transport receives a batch and hands it to the scheduler as a handler task: one
\* more handler call is pending, and pending or active
TpArrive(k) ==
    /\ tp.st[k] = "absent"
    /\ tp' = [tp EXCEPT !.st[k] = "queued", !.pending = @ + 1, !.active = @ + 1]
    /\ UNCHANGED NotTp
\* the scheduler runs the task: if (!sched.should_run_handlers()) return tr_idle
TpTest(k) ==
    /\ tp.st[k] = "queued"
    /\ tp' = IF tp.run_handlers
             THEN [tp EXCEPT !.st[k] = "running", !.pos[k] = 1]
             ELSE [tp EXCEPT !.ret[k] = "tr_idle"]
    /\ UNCHANGED NotTp
\* the next statement of the body; after the last one, return tr_busy_and_finished
TpBody(k) ==
    /\ tp.st[k] = "running"
    /\ LET stmt == WrapperBody[tp.pos[k]]
           last == tp.pos[k] = Len(WrapperBody)
           after == [tp EXCEPT !.pos[k] = IF last THEN 0 ELSE @ + 1,
                               !.st[k] = IF last THEN "finished" ELSE @,
                               !.ret[k] = IF last THEN "tr_busy_and_finished" ELSE @]
       IN tp' = CASE stmt = "dec_pending" -> [after EXCEPT !.pending = @ - 1, !.dec_pending[k] = @ + 1]
                  [] stmt = "handler" -> [after EXCEPT !.ran[k] = @ + 1]
                  [] stmt = "handler_done" -> [after EXCEPT !.done[k] = @ + 1]
                  [] stmt = "dec_active" -> [after EXCEPT !.active = @ - 1, !.dec_active[k] = @ + 1]
    /\ UNCHANGED NotTp
\* the scheduler starts or stops running handlers
TpToggleRunHandlers ==
    /\ tp.ops < MaxTpOps
    /\ tp' = [tp EXCEPT !.run_handlers = ~@, !.ops = @ + 1]
    /\ UNCHANGED NotTp
\* the termination detector's really_ending_epoch() changes its answer
TpToggleEnding ==
    /\ tp.ops < MaxTpOps
    /\ tp' = [tp EXCEPT !.ending = ~@, !.ops = @ + 1]
    /\ UNCHANGED NotTp
\* transport::i_end_epoch: a flush, then the alive flag (true) and the idle task
TpEndEpoch ==
    /\ tp.ep = "none"
    /\ tp' = [tp EXCEPT !.ep = "requested", !.ep_alive = TRUE, !.flushes = @ + 1, !.fpc = "queued"]
    /\ UNCHANGED NotTp
\* end_epoch_request::mark_finished: the termination message has been received
TpMarkFinished ==
    /\ tp.ep = "requested"
    /\ tp.ep_alive
    /\ tp' = [tp EXCEPT !.ep = "finished", !.ep_alive = FALSE]
    /\ UNCHANGED NotTp
\* the request and the last owner of the transport go away after the epoch has finished
TpTransportGone ==
    /\ tp.ep = "finished"
    /\ tp.trans_live
    /\ tp' = [tp EXCEPT !.trans_live = FALSE]
    /\ UNCHANGED NotTp
\* do_flush_all::operator(): if (!*alive) return tr_remove_from_queue
TpFlushTaskAlive ==
    /\ tp.fpc = "queued"
    /\ tp.ops < MaxTpOps
    /\ tp' = IF tp.ep_alive
             THEN [tp EXCEPT !.fpc = "lock", !.ops = @ + 1, !.fret = "none",
                             !.saw = [alive |-> TRUE, trans |-> FALSE, quiet |-> FALSE, ending |-> FALSE]]
             ELSE [tp EXCEPT !.fpc = "removed", !.ops = @ + 1, !.fret = "tr_remove_from_queue",
                             !.saw = [alive |-> FALSE, trans |-> FALSE, quiet |-> FALSE, ending |-> FALSE]]
    /\ UNCHANGED NotTp
\* trans_sp = trans.lock(); if (!trans_sp) return tr_remove_from_queue
TpFlushTaskLock ==
    /\ tp.fpc = "lock"
    /\ tp' = IF tp.trans_live
             THEN [tp EXCEPT !.fpc = "idle_count", !.saw.trans = TRUE]
             ELSE [tp EXCEPT !.fpc = "removed", !.fret = "tr_remove_from_queue"]
    /\ UNCHANGED NotTp
\* idle(): handler_calls_pending_or_active.load() == 0, the left operand of &&
TpFlushTaskIdleCount ==
    /\ tp.fpc = "idle_count"
    /\ tp' = IF IdleValue(tp.active, TRUE)
             THEN [tp EXCEPT !.fpc = "idle_td", !.saw.quiet = TRUE]
             ELSE [tp EXCEPT !.fpc = "queued", !.fret = "tr_idle"]
    /\ UNCHANGED NotTp
\* idle(): really_ending_epoch(), the right operand; if (!idle()) return tr_idle
TpFlushTaskIdleTd ==
    /\ tp.fpc = "idle_td"
    /\ tp' = IF IdleValue(0, tp.ending)
             THEN [tp EXCEPT !.fpc = "flush", !.saw.ending = tp.ending]
             ELSE [tp EXCEPT !.fpc = "queued", !.fret = "tr_idle"]
    /\ UNCHANGED NotTp
\* return trans_sp->flush()
TpFlushTaskFlush ==
    /\ tp.fpc = "flush"
    /\ tp' = [tp EXCEPT !.fpc = "queued", !.flushes = @ + 1, !.fret = "flush"]
    /\ UNCHANGED NotTp
\* one epoch of the transport: batches arrive and their handler tasks run on the
\* scheduler's threads, the end of the epoch is requested and its idle task runs
NextTp ==
    \/ \E k \in Tasks : TpArrive(k)
    \/ \E k \in Tasks : TpTest(k)
    \/ \E k \in Tasks : TpBody(k)
    \/ TpToggleRunHandlers
    \/ TpToggleEnding
    \/ TpEndEpoch
    \/ TpMarkFinished
    \/ TpTransportGone
    \/ TpFlushTaskAlive
    \/ TpFlushTaskLock
    \/ TpFlushTaskIdleCount
    \/ TpFlushTaskIdleTd
    \/ TpFlushTaskFlush
SpecTp == Init /\ [][NextTp]_vars

(* ------------------------------ C36 ------------------------------------ *)
\* the handler call of task k is pending (queued) or active (its task has not returned)
PendingOrActive(k) == tp.st[k] \in {"queued", "running"}
FlushTaskStep == tp.fpc \in {"queued", "lock", "idle_count", "idle_td", "flush"} /\ tp'.fpc # tp.fpc
\* C37 (end-of-epoch flush task): do_flush_all returns tr_remove_from_queue without
\* flushing when its alive flag is false (the termination message was received) or the
\* transport is gone; otherwise it calls the transport's flush only after idle() found no
\* handler call pending or active and the detector really ending the epoch, and returns
\* tr_idle without flushing when idle() is false.
FlushTaskGuarded ==
    [][FlushTaskStep =>
          /\ (tp.fpc = "queued" /\ ~tp.ep_alive) =>
                (tp'.fpc = "removed" /\ tp'.fret = "tr_remove_from_queue" /\ tp'.flushes = tp.flushes)
          /\ (tp.fpc = "lock" /\ ~tp.trans_live) =>
                (tp'.fpc = "removed" /\ tp'.fret = "tr_remove_from_queue" /\ tp'.flushes = tp.flushes)
          /\ (tp.fpc = "idle_count" /\ tp.active # 0) =>
                (tp'.fpc = "queued" /\ tp'.fret = "tr_idle" /\ tp'.flushes = tp.flushes)
          /\ (tp.fpc = "idle_td" /\ ~tp.ending) =>
                (tp'.fpc = "queued" /\ tp'.fret = "tr_idle" /\ tp'.flushes = tp.flushes)
          /\ tp'.fret = "tr_remove_from_queue" => (~tp.ep_alive \/ ~tp.trans_live)
          /\ tp'.flushes # tp.flushes =>
                (tp.fpc = "flush" /\ tp.saw.alive /\ tp.saw.trans /\ tp.saw.quiet /\ tp.saw.ending)]_vars
\* the task has flushed once on an idle transport, has returned tr_idle on a later run
\* because a handler call was pending, and the termination message has now been received
FlushTaskGuardedWitness ==
    /\ tp.flushes = 2
    /\ tp.fpc = "queued" /\ tp.fret = "tr_idle"
    /\ tp.active > 0
    /\ tp.ep = "finished"

(* ----------------------------- the barrier ----------------------------- *)
\* everything but the barrier
NotBar == <<shared, transmitted, td_notified, gen, resv, nsent, fret, phase, cycles, q_mark, heur, watch, gen_coalescing_size, inbound, ids, sig, ab, tp, locals>>
\* --count on an unsigned int
Decrement(x) == (x + UINT_MAX) % (UINT_MAX + 1)
\* a wait that returns on any wake-up
ReleasedOnAnyWakeup(gen_seen, generation) == TRUE
\* the predicate of cv.wait: [this, gen] { return gen != generation; }
Released(gen_seen, generation) == gen_seen # generation
\* the last thread leaves count at 0
CountNotReset(threshold) == 0
\* count = threshold
CountAfterRelease(threshold) == threshold
\* what wait() returned to thread t, with the generation of the call, the call's place
\* among the arrivals of its generation and the arrivals of that generation so far
BarReturn(t, val) == [t |-> t, gen |-> bar.gen[t], val |-> val, ord |-> bar.ord[t], seen |-> bar.arrived[bar.gen[t]]]
\* std::unique_lock<std::mutex> lock(mtx); unsigned int gen = generation
BarLock(t) ==
    /\ bar.pc[t] = "out"
    /\ bar.calls[t] < MaxGenerations
    /\ bar.mtx = 0
    /\ bar' = [bar EXCEPT !.mtx = t, !.pc[t] = "locked", !.gen[t] = bar.generation, !.calls[t] = @ + 1]
    /\ UNCHANGED NotBar
\* if (--count == 0) { generation++; count = threshold; cv.notify_all(); return true; }
\* otherwise cv.wait(lock, ...) finds its predicate false and releases the mutex
BarArrive(t) ==
    /\ bar.pc[t] = "locked"
    /\ LET g == bar.gen[t]
           here == [bar EXCEPT !.arrived[g] = @ + 1, !.ord[t] = bar.arrived[g] + 1, !.mtx = 0]
       IN bar' = IF Decrement(bar.count) = 0
                 THEN [here EXCEPT !.generation = FetchAdd(@), !.count = CountAfterRelease(bar.threshold),
                                   !.pc[t] = "out",
                                   !.rets = @ \cup {[t |-> t, gen |-> g, val |-> TRUE, ord |-> here.ord[t], seen |-> here.arrived[g]]}]
                 ELSE [here EXCEPT !.count = Decrement(@), !.pc[t] = "waiting"]
    /\ UNCHANGED NotBar
\* cv.wait wakes (notified or spuriously), takes the mutex again and finds its predicate
\* true: return false. A wake-up that finds it false goes back to sleep and changes nothing.
BarWake(t) ==
    /\ bar.pc[t] = "waiting"
    /\ bar.mtx = 0
    /\ Released(bar.gen[t], bar.generation)
    /\ bar' = [bar EXCEPT !.pc[t] = "out", !.rets = @ \cup {BarReturn(t, FALSE)}]
    /\ UNCHANGED NotBar
\* BarrierCount threads call wait() again and again
NextBar ==
    \/ \E t \in BarThreads : BarLock(t)
    \/ \E t \in BarThreads : BarArrive(t)
    \/ \E t \in BarThreads : BarWake(t)
SpecBar == Init /\ [][NextBar]_vars
\* a thread that holds the mutex goes on, and a sleeping thread whose predicate holds wakes
BarFairness == \A t \in BarThreads : WF_vars(BarArrive(t)) /\ WF_vars(BarWake(t))
SpecBarLive == Init /\ [][NextBar]_vars /\ BarFairness

(* ------------------------------ C38 ------------------------------------ *)
\* the calls of generation g that have returned
ReturnsOf(g) == {r \in bar.rets : r.gen = g}
\* C38 (barrier safety): no thread returns from wait() of a generation before n threads
\* have called wait() in that generation, and in each generation exactly one thread, the
\* last to arrive, gets true while the other n - 1 get false.
BarrierSafety ==
    /\ \A r \in bar.rets : r.seen = bar.threshold /\ (r.val <=> r.ord = bar.threshold)
    /\ \A g \in 0..MaxGenerations :
          /\ bar.arrived[g] <= bar.threshold
          /\ Cardinality({r \in ReturnsOf(g) : r.val}) <= 1
          /\ ReturnsOf(g) # {} => Cardinality({r \in ReturnsOf(g) : r.val}) = 1
          /\ Cardinality({r.t : r \in ReturnsOf(g)}) = Cardinality(ReturnsOf(g))
\* every thread has returned from the first generation, one of them with true, and the
\* second generation is complete as well
BarrierSafetyWitness ==
    /\ Cardinality(ReturnsOf(0)) = BarrierCount
    /\ Cardinality({r \in ReturnsOf(0) : ~r.val}) = BarrierCount - 1
    /\ Cardinality(ReturnsOf(1)) = BarrierCount

(* ------------------------------ C39 ------------------------------------ *)
\* C39 (barrier liveness and reuse): whenever n threads have called wait() in a
\* generation, all n calls eventually return; the step that ends a generation resets count
\* to n; and a thread that re-entered wait() for the next generation is not released while
\* that generation is incomplete, whatever the wake-ups of the previous one.
BarrierLiveness ==
    /\ \A g \in 0..(MaxGenerations - 1) :
          (bar.arrived[g] = bar.threshold) ~> (Cardinality(ReturnsOf(g)) = bar.threshold)
    /\ [][bar'.generation # bar.generation => bar'.count = bar.threshold]_vars
    /\ [][\A t \in BarThreads :
            (bar.pc[t] = "waiting" /\ bar.gen[t] = bar.generation /\ bar'.generation = bar.generation) =>
                bar'.pc[t] = "waiting"]_vars
\* a thread has re-entered wait() for the second generation and sleeps, while a thread of
\* the first generation has not yet woken
BarrierLivenessWitness ==
    \E t, u \in BarThreads :
        /\ bar.pc[t] = "waiting" /\ bar.gen[t] = 0 /\ bar.generation = 1
        /\ bar.pc[u] = "waiting" /\ bar.gen[u] = 1
====
